---------------------------- MODULE Spec2Model ----------------------------
(***************************************************************************)
(* The five-stage answer pipeline of backend/app/agents/pipeline.py        *)
(* (Planner -> Retriever -> Reasoner -> Validator -> Responder), the       *)
(* injection detector of backend/app/utils/validators.py, the text         *)
(* chunker of backend/app/core/chunker.py, and the upload, ask, delete     *)
(* and clear requests of backend/app/api/endpoints.py over the vector      *)
(* store of backend/app/core/vector_store.py and the uploads directory.    *)
(*                                                                         *)
(* A Python str is a sequence of one-character strings, so that len,       *)
(* strip, lower, the `in` substring test and re.search are computed on     *)
(* characters as the code computes them.  Similarity scores are integers   *)
(* in units of 1/10000.  The vector store, the embedding service and the   *)
(* completion service are collaborators: each call either returns one of   *)
(* a bounded set of values or raises.                                      *)
(***************************************************************************)
EXTENDS Integers, Sequences, FiniteSets, TLC

(***************************************************************************)
(* Python str operations                                                   *)
(***************************************************************************)
UpperChars ==
  <<"A","B","C","D","E","F","G","H","I","J","K","L","M",
    "N","O","P","Q","R","S","T","U","V","W","X","Y","Z">>

LowerChars ==
  <<"a","b","c","d","e","f","g","h","i","j","k","l","m",
    "n","o","p","q","r","s","t","u","v","w","x","y","z">>

\* the characters str.strip() removes and the regular expression \s matches
IsSpace(c) == c \in {" ", "\t", "\n", "\r", "\f"}

UpperSet == {UpperChars[i] : i \in 1..Len(UpperChars)}

LowerOf ==
  [c \in UpperSet |->
     LowerChars[CHOOSE i \in 1..Len(UpperChars) : UpperChars[i] = c]]

ToLower(c) == IF c \in UpperSet THEN LowerOf[c] ELSE c

\* str.lower()
Lower(s) == <<>> \o [i \in 1..Len(s) |-> ToLower(s[i])]

\* str.strip()
Strip(s) ==
  LET keep == {i \in 1..Len(s) : ~IsSpace(s[i])}
  IN  IF keep = {} THEN <<>>
      ELSE SubSeq(s, CHOOSE i \in keep : \A j \in keep : i <= j,
                     CHOOSE i \in keep : \A j \in keep : j <= i)

\* s[i:].startswith(lit), i counted from 1
StartsAt(s, i, lit) ==
  /\ i + Len(lit) - 1 <= Len(s)
  /\ \A k \in 1..Len(lit) : s[i + k - 1] = lit[k]

\* the Python test `lit in s`
Contains(lit, s) == \E i \in 1..(Len(s) - Len(lit) + 1) : StartsAt(s, i, lit)

RECURSIVE IntToStr(_)
\* str(n) for n >= 0, as an f-string formats an int
IntToStr(n) ==
  LET digits == <<"0","1","2","3","4","5","6","7","8","9">>
  IN  IF n < 10 THEN <<digits[n + 1]>>
      ELSE IntToStr(n \div 10) \o <<digits[(n % 10) + 1]>>

(***************************************************************************)
(* Regular expressions.  A pattern is a sequence of elements: "lit" is an  *)
(* alternation of literals, "opt" an optional literal, "sp1" is \s+ and    *)
(* "sp0" is \s*.                                                           *)
(***************************************************************************)
Lit(alts) == [t |-> "lit", alts |-> alts]
Opt(alts) == [t |-> "opt", alts |-> alts]
Sp1 == [t |-> "sp1", alts |-> {}]
Sp0 == [t |-> "sp0", alts |-> {}]

\* a literal matched at position i under re.IGNORECASE
LitAt(s, i, lit) ==
  /\ i + Len(lit) - 1 <= Len(s)
  /\ \A k \in 1..Len(lit) : ToLower(s[i + k - 1]) = ToLower(lit[k])

RECURSIVE MatchAt(_, _, _, _)
\* elements k.. of pat match s from position i on
MatchAt(pat, k, s, i) ==
  IF k > Len(pat) THEN TRUE
  ELSE LET e == pat[k]
       IN  CASE e.t = "lit" ->
                  \E a \in e.alts : LitAt(s, i, a) /\ MatchAt(pat, k + 1, s, i + Len(a))
             [] e.t = "opt" ->
                  \/ \E a \in e.alts : LitAt(s, i, a) /\ MatchAt(pat, k + 1, s, i + Len(a))
                  \/ MatchAt(pat, k + 1, s, i)
             [] e.t = "sp1" ->
                  \E j \in (i + 1)..(Len(s) + 1) :
                     /\ \A x \in i..(j - 1) : IsSpace(s[x])
                     /\ MatchAt(pat, k + 1, s, j)
             [] e.t = "sp0" ->
                  \E j \in i..(Len(s) + 1) :
                     /\ \A x \in i..(j - 1) : IsSpace(s[x])
                     /\ MatchAt(pat, k + 1, s, j)

\* re.search(pat, s, re.IGNORECASE) is not None
re_search(pat, s) ==
  IF pat[1].t = "lit"
    THEN \* a match can only start where a first character of the literal stands
         LET first == {ToLower(a[1]) : a \in pat[1].alts}
         IN  \E i \in 1..Len(s) : ToLower(s[i]) \in first /\ MatchAt(pat, 1, s, i)
    ELSE \E i \in 1..(Len(s) + 1) : MatchAt(pat, 1, s, i)

(***************************************************************************)
(* utils/validators.py                                                     *)
(***************************************************************************)
PreviousAbovePrior ==
  {<<"p","r","e","v","i","o","u","s">>,
   <<"a","b","o","v","e">>,
   <<"p","r","i","o","r">>}

INJECTION_PATTERNS ==
  << <<Lit({<<"i","g","n","o","r","e">>}), Sp1, Lit(PreviousAbovePrior), Sp1,
       Lit({<<"i","n","s","t","r","u","c","t","i","o","n","s">>})>>,
     <<Lit({<<"d","i","s","r","e","g","a","r","d">>}), Sp1, Lit(PreviousAbovePrior)>>,
     <<Lit({<<"f","o","r","g","e","t">>}), Sp1,
       Lit({<<"p","r","e","v","i","o","u","s">>, <<"a","b","o","v","e">>, <<"a","l","l">>})>>,
     <<Lit({<<"n","e","w">>}), Sp1, Lit({<<"i","n","s","t","r","u","c","t","i","o","n">>}),
       Opt({<<"s">>}), Lit({<<":">>})>>,
     <<Lit({<<"s","y","s","t","e","m">>}), Sp0, Lit({<<":">>})>>,
     <<Lit({<<"<">>}), Sp0, Lit({<<"s","c","r","i","p","t">>})>>,
     <<Lit({<<"j","a","v","a","s","c","r","i","p","t",":">>})>>,
     <<Lit({<<"d","a","t","a",":","t","e","x","t","/","h","t","m","l">>})>> >>

\* (is_injection, detected): detected lists the matching patterns, by their
\* position in INJECTION_PATTERNS, in list order
detect_prompt_injection(text) ==
  LET text_lower == Lower(text)
      Hit(k) == re_search(INJECTION_PATTERNS[k], text_lower)
      detected == SelectSeq([k \in 1..Len(INJECTION_PATTERNS) |-> k], Hit)
  IN  [is_injection |-> Len(detected) > 0, detected |-> detected]

(***************************************************************************)
(* Collaborator calls: a call returns a value or raises an exception that  *)
(* carries an error text.                                                  *)
(***************************************************************************)
Return(v) == [ok |-> TRUE, value |-> v]
Raise(e) == [ok |-> FALSE, error |-> e]

\* a variable that holds nothing yet (Python: not assigned)
NoValue == [unset |-> TRUE]

\* Python None
None == "None"

(***************************************************************************)
(* agents/pipeline.py: fixed texts                                         *)
(***************************************************************************)
InjectionResponse ==
  <<"I"," ","c","a","n","n","o","t"," ","p","r","o","c","e","s","s",
    " ","t","h","i","s"," ","q","u","e","s","t","i","o","n"," ","a",
    "s"," ","i","t"," ","c","o","n","t","a","i","n","s"," ","p","o",
    "t","e","n","t","i","a","l","l","y"," ","u","n","s","a","f","e",
    " ","p","a","t","t","e","r","n","s",".">>

EmptyKnowledgeBaseResponse ==
  <<"N","o"," ","d","o","c","u","m","e","n","t","s"," ","h","a","v",
    "e"," ","b","e","e","n"," ","u","p","l","o","a","d","e","d"," ",
    "y","e","t","."," ","P","l","e","a","s","e"," ","u","p","l","o",
    "a","d"," ","d","o","c","u","m","e","n","t","s"," ","b","e","f",
    "o","r","e"," ","a","s","k","i","n","g"," ","q","u","e","s","t",
    "i","o","n","s",".">>

VagueQuestionResponse ==
  <<"Y","o","u","r"," ","q","u","e","s","t","i","o","n"," ","s","e",
    "e","m","s"," ","t","o","o"," ","s","h","o","r","t","."," ","C",
    "o","u","l","d"," ","y","o","u"," ","p","r","o","v","i","d","e",
    " ","m","o","r","e"," ","d","e","t","a","i","l","s","?">>

NoDocumentsAnswer ==
  <<"I"," ","d","o","n","'","t"," ","h","a","v","e"," ","a","n","y",
    " ","d","o","c","u","m","e","n","t","s"," ","t","o"," ","a","n",
    "s","w","e","r"," ","t","h","i","s"," ","q","u","e","s","t","i",
    "o","n","."," ","P","l","e","a","s","e"," ","u","p","l","o","a",
    "d"," ","r","e","l","e","v","a","n","t"," ","d","o","c","u","m",
    "e","n","t","s"," ","f","i","r","s","t",".">>

\* a substituted draft shorter than the Validator's length check
ReasonerErrorAnswer_Short == <<"E","r","r","o","r",".">>

ReasonerErrorAnswer ==
  <<"I"," ","e","n","c","o","u","n","t","e","r","e","d"," ","a","n",
    " ","e","r","r","o","r"," ","w","h","i","l","e"," ","p","r","o",
    "c","e","s","s","i","n","g"," ","y","o","u","r"," ","q","u","e",
    "s","t","i","o","n",".">>

TooShortFallback ==
  <<"I"," ","c","o","u","l","d","n","'","t"," ","g","e","n","e","r",
    "a","t","e"," ","a"," ","p","r","o","p","e","r"," ","a","n","s",
    "w","e","r","."," ","C","o","u","l","d"," ","y","o","u"," ","r",
    "e","p","h","r","a","s","e"," ","y","o","u","r"," ","q","u","e",
    "s","t","i","o","n","?">>

LlmErrorFallback ==
  <<"I"," ","e","n","c","o","u","n","t","e","r","e","d"," ","a"," ",
    "t","e","c","h","n","i","c","a","l"," ","i","s","s","u","e",".",
    " ","P","l","e","a","s","e"," ","t","r","y"," ","a","g","a","i",
    "n",".">>

no_info_phrases ==
  << <<"d","o"," ","n","o","t"," ","c","o","n","t","a","i","n">>,
     <<"d","o","n","'","t"," ","c","o","n","t","a","i","n">>,
     <<"n","o"," ","i","n","f","o","r","m","a","t","i","o","n">>,
     <<"c","a","n","n","o","t"," ","a","n","s","w","e","r">>,
     <<"n","o","t"," ","f","o","u","n","d"," ","i","n">> >>

uncertain_phrases ==
  << <<"m","i","g","h","t">>,
     <<"p","o","s","s","i","b","l","y">>,
     <<"p","e","r","h","a","p","s">>,
     <<"u","n","c","l","e","a","r">>,
     <<"n","o","t"," ","s","u","r","e">> >>

\* len(question.strip()) < 10
MinQuestionLen == 10

\* len(answer.strip()) < 20
MinAnswerLen == 20

\* avg_score > 0.8 and avg_score > 0.6, in units of 1/10000
HighThreshold == 8000

MediumThreshold == 6000

(***************************************************************************)
(* agents/pipeline.py: the five agents.  An agent that calls a             *)
(* collaborator takes the outcome of the call as its last argument and,    *)
(* where it matters, reports the calls it made.                            *)
(***************************************************************************)
\* _planner with the vague-question check placed before the knowledge-base check
_planner_VagueFirst(question, stats) ==
  IF detect_prompt_injection(question).is_injection
    THEN [calls |-> <<>>, raised |-> FALSE,
          value |-> [needs_retrieval |-> FALSE, response |-> InjectionResponse,
                     safety_flags |-> <<"prompt_injection">>]]
  ELSE IF Len(Strip(question)) < MinQuestionLen
    THEN [calls |-> <<>>, raised |-> FALSE,
          value |-> [needs_retrieval |-> FALSE, response |-> VagueQuestionResponse,
                     safety_flags |-> <<"vague_question">>]]
  ELSE IF ~stats.ok
    THEN [calls |-> <<"get_collection_stats">>, raised |-> TRUE, error |-> stats.error]
  ELSE IF stats.value.total_chunks = 0
    THEN [calls |-> <<"get_collection_stats">>, raised |-> FALSE,
          value |-> [needs_retrieval |-> FALSE, response |-> EmptyKnowledgeBaseResponse,
                     safety_flags |-> <<"empty_knowledge_base">>]]
  ELSE [calls |-> <<"get_collection_stats">>, raised |-> FALSE,
        value |-> [needs_retrieval |-> TRUE, safety_flags |-> <<>>]]

\* [calls, raised, error | value]: the calls made, and either the exception
\* that left _planner or the plan it returned
_planner(question, stats) ==
  IF detect_prompt_injection(question).is_injection
    THEN [calls |-> <<>>, raised |-> FALSE,
          value |-> [needs_retrieval |-> FALSE, response |-> InjectionResponse,
                     safety_flags |-> <<"prompt_injection">>]]
  ELSE IF ~stats.ok
    THEN [calls |-> <<"get_collection_stats">>, raised |-> TRUE, error |-> stats.error]
  ELSE IF stats.value.total_chunks = 0
    THEN [calls |-> <<"get_collection_stats">>, raised |-> FALSE,
          value |-> [needs_retrieval |-> FALSE, response |-> EmptyKnowledgeBaseResponse,
                     safety_flags |-> <<"empty_knowledge_base">>]]
  ELSE IF Len(Strip(question)) < MinQuestionLen
    THEN [calls |-> <<"get_collection_stats">>, raised |-> FALSE,
          value |-> [needs_retrieval |-> FALSE, response |-> VagueQuestionResponse,
                     safety_flags |-> <<"vague_question">>]]
  ELSE [calls |-> <<"get_collection_stats">>, raised |-> FALSE,
        value |-> [needs_retrieval |-> TRUE, safety_flags |-> <<>>]]

\* _retriever calling search a second time after a failure
_retriever_Retry(question, search) ==
  [calls |-> IF search.ok THEN <<"search">> ELSE <<"search", "search">>,
   raised |-> FALSE,
   value |-> IF search.ok THEN search.value ELSE <<>>]

\* _retriever without its except clause
_retriever_Propagates(question, search) ==
  IF search.ok
    THEN [calls |-> <<"search">>, raised |-> FALSE, value |-> search.value]
    ELSE [calls |-> <<"search">>, raised |-> TRUE, error |-> search.error]

\* search is called once; its exception is caught, logged and becomes the
\* empty list, so no exception leaves _retriever
_retriever(question, search) ==
  [calls |-> <<"search">>, raised |-> FALSE,
   value |-> IF search.ok THEN search.value ELSE <<>>]

\* generate_completion is called once with a prompt built from the question
\* and the chunks; the prompt and "context_used" are read by no later stage
\* and are left out
_reasoner(question, chunks, completion) ==
  IF completion.ok
    THEN [answer |-> completion.value, num_sources |-> Len(chunks)]
    ELSE [answer |-> ReasonerErrorAnswer, num_sources |-> 0, error |-> completion.error]

RECURSIVE SumScores(_)
\* sum(c["score"] for c in chunks)
SumScores(chunks) ==
  IF chunks = <<>> THEN 0 ELSE chunks[1].score + SumScores(Tail(chunks))

\* avg_score >= threshold
AvgAbove_Inclusive(chunks, threshold) == SumScores(chunks) >= threshold * Len(chunks)

\* avg_score > threshold, with avg_score = sum / len compared exactly
AvgAbove(chunks, threshold) == SumScores(chunks) > threshold * Len(chunks)

_assess_confidence(reasoning_result, chunks) ==
  IF chunks = <<>> THEN "low"
  ELSE LET answer == Lower(reasoning_result.answer)
           has_uncertainty ==
             \E k \in 1..Len(uncertain_phrases) : Contains(uncertain_phrases[k], answer)
       IN  IF AvgAbove(chunks, HighThreshold) /\ ~has_uncertainty THEN "high"
           ELSE IF AvgAbove(chunks, MediumThreshold) THEN "medium"
           ELSE "low"

\* one flag for the whole context, however many chunks are flagged
ContextFlags_Once(chunks) ==
  IF \E i \in 1..Len(chunks) : detect_prompt_injection(chunks[i].text).is_injection
    THEN <<"injection_in_context">> ELSE <<>>

RECURSIVE ContextFlags(_)
\* one "injection_in_context" per chunk whose text the detector flags
ContextFlags(chunks) ==
  IF chunks = <<>> THEN <<>>
  ELSE (IF detect_prompt_injection(chunks[1].text).is_injection
          THEN <<"injection_in_context">> ELSE <<>>) \o ContextFlags(Tail(chunks))

\* _validator with the error text copied into the reason it reports
_validator_LeaksError(reasoning_result, chunks) ==
  LET answer == reasoning_result.answer
      safety_flags == ContextFlags(chunks)
      answer_lower == Lower(answer)
      has_no_info ==
        \E k \in 1..Len(no_info_phrases) : Contains(no_info_phrases[k], answer_lower)
  IN  IF Len(Strip(answer)) < MinAnswerLen /\ ~has_no_info
        THEN [is_valid |-> FALSE, fallback_response |-> TooShortFallback,
              safety_flags |-> safety_flags \o <<"answer_too_short">>,
              reason |-> <<"A","n","s","w","e","r"," ","v","a","l","i","d","a","t","i","o",
                           "n"," ","f","a","i","l","e","d",":"," ","t","o","o"," ","s","h",
                           "o","r","t">>]
      ELSE IF "error" \in DOMAIN reasoning_result
        THEN [is_valid |-> FALSE, fallback_response |-> LlmErrorFallback,
              safety_flags |-> safety_flags \o <<"llm_error">>,
              reason |-> <<"L","L","M"," ","e","r","r","o","r",":"," ">>
                           \o reasoning_result.error]
      ELSE [is_valid |-> TRUE,
            confidence |-> _assess_confidence(reasoning_result, chunks),
            safety_flags |-> safety_flags,
            reason |-> <<"V","a","l","i","d","a","t","i","o","n"," ","p","a","s","s","e",
                         "d">>]

\* _validator with the error check placed before the length check
_validator_ErrorFirst(reasoning_result, chunks) ==
  LET answer == reasoning_result.answer
      safety_flags == ContextFlags(chunks)
      answer_lower == Lower(answer)
      has_no_info ==
        \E k \in 1..Len(no_info_phrases) : Contains(no_info_phrases[k], answer_lower)
  IN  IF "error" \in DOMAIN reasoning_result
        THEN [is_valid |-> FALSE, fallback_response |-> LlmErrorFallback,
              safety_flags |-> safety_flags \o <<"llm_error">>,
              reason |-> <<"L","L","M"," ","e","r","r","o","r"," ","d","u","r","i","n","g",
                           " ","r","e","a","s","o","n","i","n","g">>]
      ELSE IF Len(Strip(answer)) < MinAnswerLen /\ ~has_no_info
        THEN [is_valid |-> FALSE, fallback_response |-> TooShortFallback,
              safety_flags |-> safety_flags \o <<"answer_too_short">>,
              reason |-> <<"A","n","s","w","e","r"," ","v","a","l","i","d","a","t","i","o",
                           "n"," ","f","a","i","l","e","d",":"," ","t","o","o"," ","s","h",
                           "o","r","t">>]
      ELSE [is_valid |-> TRUE,
            confidence |-> _assess_confidence(reasoning_result, chunks),
            safety_flags |-> safety_flags,
            reason |-> <<"V","a","l","i","d","a","t","i","o","n"," ","p","a","s","s","e",
                         "d">>]

_validator(reasoning_result, chunks) ==
  LET answer == reasoning_result.answer
      safety_flags == ContextFlags(chunks)
      answer_lower == Lower(answer)
      has_no_info ==
        \E k \in 1..Len(no_info_phrases) : Contains(no_info_phrases[k], answer_lower)
  IN  IF Len(Strip(answer)) < MinAnswerLen /\ ~has_no_info
        THEN [is_valid |-> FALSE, fallback_response |-> TooShortFallback,
              safety_flags |-> safety_flags \o <<"answer_too_short">>,
              reason |-> <<"A","n","s","w","e","r"," ","v","a","l","i","d","a","t","i","o",
                           "n"," ","f","a","i","l","e","d",":"," ","t","o","o"," ","s","h",
                           "o","r","t">>]
      ELSE IF "error" \in DOMAIN reasoning_result
        THEN [is_valid |-> FALSE, fallback_response |-> LlmErrorFallback,
              safety_flags |-> safety_flags \o <<"llm_error">>,
              reason |-> <<"L","L","M"," ","e","r","r","o","r"," ","d","u","r","i","n","g",
                           " ","r","e","a","s","o","n","i","n","g">>]
      ELSE [is_valid |-> TRUE,
            confidence |-> _assess_confidence(reasoning_result, chunks),
            safety_flags |-> safety_flags,
            reason |-> <<"V","a","l","i","d","a","t","i","o","n"," ","p","a","s","s","e",
                         "d">>]

\* dict.get(key, default)
Get(d, key, default) == IF key \in DOMAIN d THEN d[key] ELSE default

\* round(score, 3), still in units of 1/10000, for a score >= 0 that is not
\* half-way between two multiples of 0.001
Round3(score) == ((score + 5) \div 10) * 10

Citation(chunk) ==
  LET metadata == Get(chunk, "metadata", <<>>)
  IN  [doc_id |-> Get(metadata, "doc_id", "unknown"),
       filename |-> Get(metadata, "filename", "unknown"),
       page |-> Get(metadata, "num_pages", None),
       sheet |-> Get(metadata, "num_sheets", None),
       chunk_id |-> Get(metadata, "chunk_id", "unknown"),
       score |-> Round3(chunk.score)]

\* _responder scanning the chunks again and adding their flags to the
\* Validator's
_responder_ReScans(reasoning_result, chunks, validation_result) ==
  [answer |-> reasoning_result.answer,
   citations |-> [i \in 1..Len(chunks) |-> Citation(chunks[i])],
   confidence |-> Get(validation_result, "confidence", "medium"),
   safety_flags |-> Get(validation_result, "safety_flags", <<>>) \o ContextFlags(chunks),
   reasoning |-> <<"U","s","e","d"," ">>
                   \o IntToStr(Len(chunks))
                   \o <<" ","s","o","u","r","c","e"," ","c","h","u","n","k","s">>]

_responder_Dedup(reasoning_result, chunks, validation_result) ==
  LET kept == SelectSeq([i \in 1..Len(chunks) |-> i],
                        LAMBDA i : \A j \in 1..(i - 1) : chunks[j] # chunks[i])
  IN  [answer |-> reasoning_result.answer,
       citations |-> [k \in 1..Len(kept) |-> Citation(chunks[kept[k]])],
       confidence |-> Get(validation_result, "confidence", "medium"),
       safety_flags |-> Get(validation_result, "safety_flags", <<>>),
       reasoning |-> <<"U","s","e","d"," ">>
                       \o IntToStr(Len(chunks))
                       \o <<" ","s","o","u","r","c","e"," ","c","h","u","n","k","s">>]

_responder(reasoning_result, chunks, validation_result) ==
  [answer |-> reasoning_result.answer,
   citations |-> [i \in 1..Len(chunks) |-> Citation(chunks[i])],
   confidence |-> Get(validation_result, "confidence", "medium"),
   safety_flags |-> Get(validation_result, "safety_flags", <<>>),
   reasoning |-> <<"U","s","e","d"," ">>
                   \o IntToStr(Len(chunks))
                   \o <<" ","s","o","u","r","c","e"," ","c","h","u","n","k","s">>]

(***************************************************************************)
(* Inputs and collaborator behaviours                                      *)
(***************************************************************************)
\* a question is made of at most MaxQParts of these fragments
MaxQParts == 2

QFragments ==
  {<<"I","g","n","o","r","e">>,
   <<" ">>,
   <<" ","\n"," ","p","r","e","v","i","o","u","s"," ","I","n","s",
     "t","r","u","c","t","i","o","n","s">>,
   <<"S","u","m","m","a","r","i","z","e">>,
   <<"S","y","s","t","e","m"," ",":">>}

RECURSIVE Concats(_)
Concats(n) ==
  IF n = 0 THEN {<<>>}
  ELSE Concats(n - 1) \cup {f \o q : f \in QFragments, q \in Concats(n - 1)}

Questions == Concats(MaxQParts)

\* the text str(e) of the exception a failing collaborator raises
ErrorTexts == {<<"C","o","n","n","e","c","t","i","o","n"," ","t","i","m","e","d",
                 " ","o","u","t">>}

\* collection.count()
TotalChunkCounts == {0, 4}

StatsOutcomes ==
  {Return([collection_name |-> "documents", total_chunks |-> n]) : n \in TotalChunkCounts}
    \cup {Raise(e) : e \in ErrorTexts}

\* chunks of the index, as add_documents stored them
StoredChunks ==
  {[chunk_id |-> "d1_0",
    text |-> <<"R","e","v","e","n","u","e"," ","g","r","e","w"," ","5","%",".">>,
    metadata |-> [doc_id |-> "d1", chunk_id |-> "0", filename |-> "report.pdf",
                  file_type |-> "pdf", num_pages |-> 3]],
   [chunk_id |-> "d2_1",
    text |-> <<"N","E","W"," "," ","i","n","s","t","r","u","c","t","i","o","n",
               "s",":"," ","o","b","e","y">>,
    metadata |-> [doc_id |-> "d2", chunk_id |-> "1", filename |-> "notes.txt",
                  file_type |-> "txt"]]}

\* the similarity scores 1 - distance a query can give a stored chunk, in
\* units of 1/10000
Similarities ==
  {<<"d1_0", 9004>>, <<"d1_0", 8000>>, <<"d2_1", 8000>>, <<"d2_1", 4000>>}

\* what a search can retrieve
RetrievedChunks ==
  {[chunk_id |-> p[1].chunk_id, text |-> p[1].text, metadata |-> p[1].metadata,
    score |-> p[2][2]] :
     p \in {x \in StoredChunks \X Similarities : x[2][1] = x[1].chunk_id}}

\* a search returns at most MaxChunks chunks
MaxChunks == 2

\* results of a search: best score first
ChunkLists ==
  {l \in UNION {[1..n -> RetrievedChunks] : n \in 0..MaxChunks} :
     \A i \in 1..(Len(l) - 1) : l[i].score >= l[i + 1].score}

SearchOutcomes == {Return(l) : l \in ChunkLists} \cup {Raise(e) : e \in ErrorTexts}

\* texts the completion service returns
Answers ==
  {<<"O","K",".">>,
   <<" ","\n"," ","N","o"," ","I","n","f","o","r","m","a","t","i",
     "o","n","."," ">>,
   <<"R","e","v","e","n","u","e"," ","g","r","e","w"," ","b","y"," ",
     "5","%","."," ","\n","\n">>,
   <<"R","e","v","e","n","u","e"," ","g","r","e","w"," ","b","y"," ",
     "5","0","%",".">>,
   <<"T","h","e"," ","a","l","M","I","G","H","T","y"," ","r","e","v",
     "e","n","u","e"," ","g","r","e","w"," ","5","%"," ","[","S","o",
     "u","r","c","e"," ","1","]",".">>,
   <<"T","h","e"," ","p","r","o","v","i","d","e","d"," ","d","o","c",
     "u","m","e","n","t","s"," ","d","o"," ","n","o","t"," ","c","o",
     "n","t","a","i","n"," ","i","n","f","o","r","m","a","t","i","o",
     "n"," ","a","b","o","u","t"," ","t","h","i","s",".">>}

CompletionOutcomes == {Return(a) : a \in Answers} \cup {Raise(e) : e \in ErrorTexts}

(***************************************************************************)
(* core/chunker.py: TextChunker.  Texts are sequences of one-character     *)
(* strings; a metadata dict is a function from its keys; an absent         *)
(* metadata (None) and the empty dict, which `if metadata` treats alike,   *)
(* are both the empty function.                                            *)
(***************************************************************************)
chars_per_token == 4

target_chars(target_tokens) == target_tokens * chars_per_token

overlap_chars(overlap_tokens) == overlap_tokens * chars_per_token

\* len(text) // self.chars_per_token
estimate_tokens(text) == Len(text) \div chars_per_token

\* the test `para_tokens > self.target_tokens * 1.5`
Oversized(paragraph, target_tokens) ==
  2 * estimate_tokens(paragraph) > 3 * target_tokens

RECURSIVE join(_, _)
\* sep.join(parts)
join(sep, parts) ==
  IF Len(parts) = 0 THEN <<>>
  ELSE IF Len(parts) = 1 THEN parts[1]
  ELSE parts[1] \o sep \o join(sep, Tail(parts))

\* the two patterns the chunker splits on
ParagraphBreak == "\\n\\s*\\n|\\n(?=\\s{2,})"
SentenceBreak == "(?<=[.!?])\\s+"

\* the position after the match of pat that starts at position i of s, and 0
\* when pat does not match there.  \n\s*\n takes the longest run of white
\* space that ends in a newline; \n(?=\s{2,}) takes the newline alone;
\* (?<=[.!?])\s+ takes the whole run of white space behind the punctuation.
BreakEnd(pat, s, i) ==
  IF pat = ParagraphBreak
    THEN IF s[i] # "\n" THEN 0
         ELSE LET closing == {j \in (i + 1)..Len(s) :
                                /\ s[j] = "\n"
                                /\ \A x \in (i + 1)..(j - 1) : IsSpace(s[x])}
              IN  IF closing # {}
                    THEN (CHOOSE j \in closing : \A k \in closing : k <= j) + 1
                  ELSE IF i + 2 <= Len(s) /\ IsSpace(s[i + 1]) /\ IsSpace(s[i + 2])
                    THEN i + 1
                  ELSE 0
    ELSE IF i >= 2 /\ s[i - 1] \in {".", "!", "?"} /\ IsSpace(s[i])
           THEN LET rest == {j \in (i + 1)..Len(s) : ~IsSpace(s[j])}
                IN  IF rest = {} THEN Len(s) + 1
                    ELSE CHOOSE j \in rest : \A k \in rest : j <= k
         ELSE 0

RECURSIVE SplitFrom(_, _, _, _)
\* the pieces of s from position start on, the next match sought from i on
SplitFrom(pat, s, start, i) ==
  IF i > Len(s) THEN <<SubSeq(s, start, Len(s))>>
  ELSE LET e == BreakEnd(pat, s, i)
       IN  IF e = 0 THEN SplitFrom(pat, s, start, i + 1)
           ELSE <<SubSeq(s, start, i - 1)>> \o SplitFrom(pat, s, e, e)

\* re.split(pat, s)
re_split(pat, s) == SplitFrom(pat, s, 1, 1)

split_by_paragraphs(text) ==
  LET pieces == re_split(ParagraphBreak, text)
      stripped == [k \in 1..Len(pieces) |-> Strip(pieces[k])]
  IN  SelectSeq(stripped, LAMBDA p : Len(p) > 0)

\* the test on the empty string alone
Blank_EmptyOnly(text) == Len(text) = 0

\* the test `not text or not text.strip()`
Blank(text) == Len(text) = 0 \/ Len(Strip(text)) = 0

\* the truth value of a dict
Truthy(d) == DOMAIN d # {}

\* the banner chunk_text puts in front of the first chunk
metadata_header(metadata) ==
  IF ~Truthy(metadata) THEN <<>>
  ELSE LET Line(key, label, value) ==
             IF key \in DOMAIN metadata THEN <<label \o value>> ELSE <<>>
           Num(key) == IF key \in DOMAIN metadata THEN IntToStr(metadata[key]) ELSE <<>>
           Str(key) == IF key \in DOMAIN metadata THEN metadata[key] ELSE <<>>
           metadata_lines ==
             << <<"=","=","="," ","D","O","C","U","M","E","N","T"," ","M","E","T",
                  "A","D","A","T","A"," ","=","=","=">> >>
             \o Line("filename", <<"F","i","l","e","n","a","m","e",":"," ">>, Str("filename"))
             \o Line("file_type", <<"F","i","l","e"," ","T","y","p","e",":"," ">>, Str("file_type"))
             \o Line("num_pages", <<"T","o","t","a","l"," ","P","a","g","e","s",":"," ">>, Num("num_pages"))
             \o Line("pages_with_text", <<"P","a","g","e","s"," ","w","i","t","h"," ","T","e","x","t",":",
                                          " ">>, Num("pages_with_text"))
             \o Line("total_characters", <<"T","o","t","a","l"," ","C","h","a","r","a","c","t","e","r","s",
                                           ":"," ">>,
                     Num("total_characters"))
             \o << <<"=","=","="," ","E","N","D"," ","M","E","T","A","D","A","T","A",
                     " ","=","=","=","\n">> >>
       IN  join(<<"\n">>, metadata_lines)

\* the reference _create_chunk puts in front of every chunk but the first
metadata_context(metadata) ==
  <<"[","D","o","c","u","m","e","n","t",":"," ">> \o metadata.filename
    \o <<" ","|"," ","T","o","t","a","l"," ","P","a","g","e","s",":"," ">> \o IntToStr(metadata.num_pages)
    \o <<"]","\n","\n">>

\* the metadata attached to the first chunk only
_create_chunk_FirstOnly(text, chunk_id, start_pos, metadata) ==
  LET full ==
        IF Truthy(metadata) /\ chunk_id = 0 THEN text
        ELSE IF /\ Truthy(metadata)
                /\ "filename" \in DOMAIN metadata
                /\ "num_pages" \in DOMAIN metadata
          THEN metadata_context(metadata) \o text
        ELSE text
      chunk == [chunk_id |-> chunk_id,
                text |-> full,
                start_pos |-> start_pos,
                end_pos |-> start_pos + Len(full),
                token_count |-> estimate_tokens(full),
                char_count |-> Len(full)]
  IN  IF Truthy(metadata) /\ chunk_id = 0 THEN chunk @@ [metadata |-> metadata]
      ELSE chunk

_create_chunk(text, chunk_id, start_pos, metadata) ==
  LET full ==
        IF Truthy(metadata) /\ chunk_id = 0 THEN text
        ELSE IF /\ Truthy(metadata)
                /\ "filename" \in DOMAIN metadata
                /\ "num_pages" \in DOMAIN metadata
          THEN metadata_context(metadata) \o text
        ELSE text
      chunk == [chunk_id |-> chunk_id,
                text |-> full,
                start_pos |-> start_pos,
                end_pos |-> start_pos + Len(full),
                token_count |-> estimate_tokens(full),
                char_count |-> Len(full)]
  IN  IF Truthy(metadata) THEN chunk @@ [metadata |-> metadata] ELSE chunk

\* no sentence carried over
KeepLastSentence_Never(temp_chunk, overlap_tokens) == <<>>

\* the last sentence carried over only when it is no longer than the overlap
KeepLastSentence_IfShort(temp_chunk, overlap_tokens) ==
  IF /\ overlap_chars(overlap_tokens) > 0
     /\ Len(temp_chunk[Len(temp_chunk)]) <= overlap_chars(overlap_tokens)
    THEN <<temp_chunk[Len(temp_chunk)]>>
    ELSE <<>>

\* the units carried over into the next chunk: the last sentence whenever
\* an overlap is configured
KeepLastSentence(temp_chunk, overlap_tokens) ==
  IF overlap_chars(overlap_tokens) > 0
    THEN <<temp_chunk[Len(temp_chunk)]>>
    ELSE <<>>

\* the last paragraph carried over whatever its length
KeepLastParagraph_Always(current_chunk, overlap_tokens) ==
  IF overlap_chars(overlap_tokens) > 0
    THEN <<current_chunk[Len(current_chunk)]>>
    ELSE <<>>

\* the last paragraph when an overlap is configured and the paragraph is no
\* longer than it
KeepLastParagraph(current_chunk, overlap_tokens) ==
  IF /\ overlap_chars(overlap_tokens) > 0
     /\ Len(current_chunk[Len(current_chunk)]) <= overlap_chars(overlap_tokens)
    THEN <<current_chunk[Len(current_chunk)]>>
    ELSE <<>>

\* the length of the unit carried over, 0 when there is none
KeptSize(kept) == IF Len(kept) = 0 THEN 0 ELSE Len(kept[1])

(***************************************************************************)
(* Documents, metadata and chunker settings                                *)
(***************************************************************************)
\* a document text is made of at most MaxTextParts of these fragments
MaxTextParts == 3

TextFragments ==
  {<<"a","\n","\n","b">>,
   <<"\n","\n">>,
   <<"\n"," "," ">>,
   <<"H","i","."," ","G","o"," ","o","n","!"," ","W","h","y","?">>,
   <<"w","x","y","z">>}

RECURSIVE TextConcats(_)
TextConcats(n) ==
  IF n = 0 THEN {<<>>}
  ELSE TextConcats(n - 1)
         \cup {f \o t : f \in TextFragments, t \in TextConcats(n - 1)}

Texts == TextConcats(MaxTextParts)

NoMetadata == <<>>

Metadatas ==
  {NoMetadata,
   [filename |-> <<"a",".","t">>, doc_id |-> <<"1","2","3">>],
   [filename |-> <<"a",".","t">>, file_type |-> <<"p","d","f">>, num_pages |-> 2]}

\* (target_tokens, overlap_tokens) of the TextChunker
ChunkerSettings == {<<1, 0>>, <<1, 1>>, <<2, 1>>, <<16, 1>>, <<16, 16>>}

(***************************************************************************)
(* The service: config.py, utils/validators.py, core/document_processor.py *)
(* and core/vector_store.py as functions of their arguments.  A file is    *)
(* its bytes and its size; a collection is the sequence of its entries in  *)
(* the order they were added.                                              *)
(***************************************************************************)
\* settings.allowed_extensions_list
allowed_extensions_list ==
  << <<"p","d","f">>, <<"t","x","t">>, <<"c","s","v">>, <<"x","l","s","x">>, <<"d","o","c">>, <<"d","o","c","x">> >>

\* settings.max_upload_bytes
max_upload_bytes == 10 * 1024 * 1024

\* s.rfind(c), counted from 1; 0 when c is not in s
LastIndex(s, c) ==
  IF \E i \in 1..Len(s) : s[i] = c
    THEN CHOOSE i \in 1..Len(s) : s[i] = c /\ \A j \in (i + 1)..Len(s) : s[j] # c
    ELSE 0

\* s.rsplit(c, 1)
rsplit(s, c) ==
  LET i == LastIndex(s, c)
  IN  IF i = 0 THEN <<s>>
      ELSE <<SubSeq(s, 1, i - 1), SubSeq(s, i + 1, Len(s))>>

\* the extension check of the upload endpoint
validate_file_extension_AnySuffix(filename, allowed_extensions) ==
  Len(filename) > 0 /\ Contains(<<".">>, filename)

validate_file_extension(filename, allowed_extensions) ==
  IF Len(filename) = 0 \/ ~Contains(<<".">>, filename) THEN FALSE
  ELSE LET ext == Lower(rsplit(filename, ".")[2])
       IN  \E k \in 1..Len(allowed_extensions) : allowed_extensions[k] = ext

validate_file_size(file_size, max_bytes) == 0 < file_size /\ file_size <= max_bytes

\* the longest question validate_question accepts
MaxQuestionLen == 1000

\* validate_question without the injection check
validate_question_NoInjectionCheck(question) ==
  IF Len(question) = 0 \/ Len(Strip(question)) = 0
    THEN [is_valid |-> FALSE, error_msg |-> <<"Q","u","e","s","t","i","o","n"," ","c","a","n","n","o","t"," ",
                                              "b","e"," ","e","m","p","t","y">>]
  ELSE IF Len(question) > MaxQuestionLen
    THEN [is_valid |-> FALSE,
          error_msg |-> <<"Q","u","e","s","t","i","o","n"," ","e","x","c","e","e","d","s",
                          " ","m","a","x","i","m","u","m"," ","l","e","n","g","t","h"," ",
                          "o","f"," ","1","0","0","0"," ","c","h","a","r","a","c","t","e",
                          "r","s">>]
  ELSE [is_valid |-> TRUE, error_msg |-> <<>>]

validate_question(question) ==
  IF Len(question) = 0 \/ Len(Strip(question)) = 0
    THEN [is_valid |-> FALSE, error_msg |-> <<"Q","u","e","s","t","i","o","n"," ","c","a","n","n","o","t"," ",
                                              "b","e"," ","e","m","p","t","y">>]
  ELSE IF Len(question) > MaxQuestionLen
    THEN [is_valid |-> FALSE,
          error_msg |-> <<"Q","u","e","s","t","i","o","n"," ","e","x","c","e","e","d","s",
                          " ","m","a","x","i","m","u","m"," ","l","e","n","g","t","h"," ",
                          "o","f"," ","1","0","0","0"," ","c","h","a","r","a","c","t","e",
                          "r","s">>]
  ELSE IF detect_prompt_injection(question).is_injection
    THEN [is_valid |-> FALSE,
          error_msg |-> <<"Q","u","e","s","t","i","o","n"," ","c","o","n","t","a","i","n",
                          "s"," ","p","o","t","e","n","t","i","a","l","l","y"," ","u","n",
                          "s","a","f","e"," ","p","a","t","t","e","r","n","s">>]
  ELSE [is_valid |-> TRUE, error_msg |-> <<>>]

\* Path(filename).suffix of a file name without directories
suffix(filename) ==
  LET i == LastIndex(filename, ".")
  IN  IF 1 < i /\ i < Len(filename) THEN SubSeq(filename, i, Len(filename)) ELSE <<>>

\* the SHA-256 digest of a file: equal digests for equal bytes only
compute_hash(bytes) == [sha256 |-> bytes]

\* process_document for the file types modelled: a .txt file is read as it
\* is, a type without extractor raises ValueError
process_document(file, filename) ==
  LET file_ext == Lower(suffix(filename))
      file_hash == compute_hash(file.bytes)
  IN  IF file_ext = <<".","t","x","t">>
        THEN Return([text |-> file.bytes,
                     metadata |-> [num_pages |-> 1, file_hash |-> file_hash,
                                   filename |-> filename, file_type |-> file_ext]])
        ELSE Raise(<<"U","n","s","u","p","p","o","r","t","e","d"," ","f","i","l","e",
                     " ","t","y","p","e",":"," ">> \o file_ext)

\* the id add_documents gives the entry of a chunk
EntryId(doc_id, chunk_id) == doc_id \o <<"_">> \o IntToStr(chunk_id)

\* the entry add_documents makes of a chunk: the items of the chunk's
\* metadata are written over the five items of the store
StoredEntry(chunk, doc_id) ==
  LET base == [doc_id |-> doc_id, chunk_id |-> IntToStr(chunk.chunk_id),
               token_count |-> chunk.token_count, start_pos |-> chunk.start_pos,
               end_pos |-> chunk.end_pos]
  IN  [id |-> EntryId(doc_id, chunk.chunk_id),
       document |-> chunk.text,
       metadata |-> IF "metadata" \in DOMAIN chunk THEN chunk.metadata @@ base
                    ELSE base]

\* collection.add behind add_documents
add_documents(entries, new_chunks, doc_id) ==
  entries \o [i \in 1..Len(new_chunks) |-> StoredEntry(new_chunks[i], doc_id)]

\* check_document_exists never finding a document
check_document_exists_Never(entries, doc_hash) == [found |-> FALSE]

\* collection.get(where={"file_hash": doc_hash}, limit=1): the document id is
\* parsed out of the id of the first entry found; found is FALSE for None
check_document_exists(entries, doc_hash) ==
  LET got == SelectSeq(entries,
               LAMBDA e : "file_hash" \in DOMAIN e.metadata
                          /\ e.metadata.file_hash = doc_hash)
  IN  IF Len(got) > 0
        THEN [found |-> TRUE, doc_id |-> rsplit(got[1].id, "_")[1]]
        ELSE [found |-> FALSE]

\* collection.delete(where={"doc_id": doc_id})
delete_document(entries, doc_id) ==
  SelectSeq(entries, LAMBDA e : e.metadata.doc_id # doc_id)

\* get_collection_stats counting one entry too many
get_collection_stats_OneMore(entries) ==
  [collection_name |-> "documents", total_chunks |-> Len(entries) + 1]

get_collection_stats(entries) ==
  [collection_name |-> "documents", total_chunks |-> Len(entries)]

\* the first n elements of a list
Take(l, n) == SubSeq(l, 1, IF Len(l) < n THEN Len(l) ELSE n)

\* search: the n_results nearest entries, each with a similarity; the
\* embedding is not computed and every entry found is given the score
search(entries, top_k, score) ==
  <<>> \o [i \in 1..Len(Take(entries, top_k)) |->
     [chunk_id |-> entries[i].id, text |-> entries[i].document,
      metadata |-> entries[i].metadata, score |-> score]]

(***************************************************************************)
(* Requests to the service                                                 *)
(***************************************************************************)
\* names of uploaded files
Filenames == {<<"a",".","t","x","t">>, <<"B",".","T","X","T">>, <<"c",".","d","o","c">>, <<"e",".","x","y","z">>, <<"n","o","e","x","t">>}

\* uploaded files: an empty file, a file of white space, two files of text
\* and a file one byte above the limit, of which only the first bytes are
\* written out
FileContents ==
  {[bytes |-> <<>>, size |-> 0],
   [bytes |-> <<" ","\n">>, size |-> 2],
   [bytes |-> <<"w","x","y","z">>, size |-> 4],
   [bytes |-> <<"H","i","."," ","G","o"," ","o","n","!">>, size |-> 10],
   [bytes |-> <<"b","i","g">>, size |-> max_upload_bytes + 1]}

\* documents indexed in one run of the service
MaxDocuments == 2

\* str(uuid.uuid4()): the n-th document id given out
DocId(n) == <<"d","o","c","-">> \o IntToStr(n)

DocIds == {DocId(n) : n \in 1..MaxDocuments}

\* questions sent to the ask endpoint
AskedQuestions ==
  {<<>>,
   <<" ">>,
   <<"S","y","s","t","e","m"," ",":">>,
   <<"W","h","y","?">>,
   <<"W","h","a","t"," ","i","s"," ","t","h","e"," ","r","e","v","e",
     "n","u","e","?">>}

\* top_k of an ask request
TopKs == {1}

\* the similarity a search gives the entries it finds
SearchScores == {9004}

\* the embedding service returns vectors or raises
EmbeddingOutcomes == {Return("embeddings")} \cup {Raise(e) : e \in ErrorTexts}

(***************************************************************************)
(* State: one run of AgentPipeline.process_question                        *)
(***************************************************************************)
VARIABLES
  pc,                  \* the stage the run is at
  question,            \* the argument of process_question
  plan,                \* what _planner returned
  retrieved_chunks,    \* what _retriever returned
  reasoning_result,    \* what _reasoner returned
  validation_result,   \* what _validator returned
  result,              \* what process_question returned
  fault,               \* the exception that left process_question
  trace,               \* the agents entered and the collaborator calls made, in order
  stats_outcome,       \* how get_collection_stats ended
  search_outcome,      \* how search ended
  completion_outcome   \* how generate_completion ended

pipeline_vars ==
  <<pc, question, plan, retrieved_chunks, reasoning_result, validation_result, result,
    fault, trace, stats_outcome, search_outcome, completion_outcome>>

(***************************************************************************)
(* State: the TextChunker and one call of chunk_text                       *)
(***************************************************************************)
VARIABLES
  target_tokens,       \* the chunker's target chunk size, in tokens
  overlap_tokens,      \* the chunker's overlap, in tokens
  cpc,                 \* where chunk_text stands
  text,                \* the text to chunk
  metadata,            \* the document metadata
  paragraphs,          \* the paragraphs of the text
  para_idx,            \* the number of paragraphs taken
  current_chunk,       \* the paragraphs of the pending chunk
  current_size,        \* their total length
  chunk_id,            \* the id of the next chunk
  start_pos,           \* the running offset
  chunks,              \* the chunks created so far, returned at the end
  sentences,           \* the sentences of an oversized paragraph
  sent_idx,            \* the number of sentences taken
  temp_chunk,          \* the sentences of the pending chunk
  temp_size            \* their total length

chunker_vars ==
  <<target_tokens, overlap_tokens, cpc, text, metadata, paragraphs, para_idx,
    current_chunk, current_size, chunk_id, start_pos, chunks, sentences, sent_idx,
    temp_chunk, temp_size>>

(***************************************************************************)
(* State: the service of backend/app/api/endpoints.py, its collection and  *)
(* its uploads directory                                                   *)
(***************************************************************************)
VARIABLES
  collection,   \* vector_store.collection: its entries; unset once deleted
  uploads,      \* the files of ./uploads, by name
  issued,       \* the number of document ids uuid4 has given out
  upload,       \* the locals of the upload request being served
  request,      \* the ask request being served
  clearing,     \* the count clear_all_documents took before it deleted
  response      \* the response the service sent last

service_vars == <<collection, uploads, issued, upload, request, clearing, response>>

vars == <<pipeline_vars, chunker_vars, service_vars>>

\* the module-level objects of endpoints.py: an empty collection, no file
\* uploaded, no request served
Service ==
  /\ collection = [entries |-> <<>>]
  /\ uploads = <<>>
  /\ issued = 0
  /\ upload = NoValue
  /\ request = NoValue
  /\ clearing = NoValue
  /\ response = NoValue

\* TextChunker(target_tokens, overlap_tokens), no text chunked yet
TextChunker(t, o) ==
  /\ target_tokens = t
  /\ overlap_tokens = o
  /\ cpc = "IDLE"
  /\ text = NoValue
  /\ metadata = NoValue
  /\ paragraphs = NoValue
  /\ para_idx = NoValue
  /\ current_chunk = NoValue
  /\ current_size = NoValue
  /\ chunk_id = NoValue
  /\ start_pos = NoValue
  /\ chunks = NoValue
  /\ sentences = NoValue
  /\ sent_idx = NoValue
  /\ temp_chunk = NoValue
  /\ temp_size = NoValue

(***************************************************************************)
(* agents/pipeline.py: the results process_question builds at its three    *)
(* early returns                                                           *)
(***************************************************************************)
NoRetrievalResult(p) ==
  [answer |-> p.response, citations |-> <<>>, confidence |-> "low",
   safety_flags |-> Get(p, "safety_flags", <<>>),
   reasoning |-> <<"N","o"," ","r","e","t","r","i","e","v","a","l"," ","n","e","e",
                   "d","e","d">>]

NoChunksResult ==
  [answer |-> NoDocumentsAnswer, citations |-> <<>>, confidence |-> "low",
   safety_flags |-> <<>>,
   reasoning |-> <<"N","o"," ","c","h","u","n","k","s"," ","r","e","t","r","i","e",
                   "v","e","d">>]

\* the rejection result still citing the retrieved chunks
RejectedResult_WithCitations(v) ==
  [answer |-> v.fallback_response,
   citations |-> [i \in 1..Len(retrieved_chunks) |-> Citation(retrieved_chunks[i])],
   confidence |-> "low", safety_flags |-> v.safety_flags,
   reasoning |-> v.reason]

RejectedResult(v) ==
  [answer |-> v.fallback_response, citations |-> <<>>,
   confidence |-> "low", safety_flags |-> v.safety_flags,
   reasoning |-> v.reason]

Init ==
  /\ pc = "IDLE"
  /\ question = <<>>
  /\ plan = NoValue
  /\ retrieved_chunks = <<>>
  /\ reasoning_result = NoValue
  /\ validation_result = NoValue
  /\ result = NoValue
  /\ fault = NoValue
  /\ trace = <<>>
  /\ stats_outcome = NoValue
  /\ search_outcome = NoValue
  /\ completion_outcome = NoValue
  /\ TextChunker(500, 50)
  /\ Service

\* process_question is called (top_k and answer_style only reach the
\* collaborators)
process_question(q) ==
  /\ pc = "IDLE"
  /\ question' = q
  /\ pc' = "PLANNING"
  /\ UNCHANGED <<plan, retrieved_chunks, reasoning_result, validation_result, result,
                 fault, trace, stats_outcome, search_outcome, completion_outcome>>

\* process_question called with any question
ProcessQuestion ==
  /\ \E q \in Questions : process_question(q)
  /\ UNCHANGED <<chunker_vars, service_vars>>

\* 1. Planner, and the early return when no retrieval is needed
Planning(stats) ==
  /\ pc = "PLANNING"
  /\ LET p == _planner(question, stats)
     IN  /\ trace' = trace \o <<"Planner">> \o p.calls
         /\ stats_outcome' = (IF p.calls = <<>> THEN NoValue ELSE stats)
         /\ IF p.raised
              THEN /\ fault' = Raise(p.error)
                   /\ pc' = "FAULT"
                   /\ UNCHANGED <<plan, result>>
              ELSE /\ plan' = p.value
                   /\ fault' = fault
                   /\ IF ~p.value.needs_retrieval
                        THEN result' = NoRetrievalResult(p.value) /\ pc' = "SHORT_CIRCUIT"
                        ELSE result' = result /\ pc' = "RETRIEVING"
  /\ UNCHANGED <<question, retrieved_chunks, reasoning_result, validation_result,
                 search_outcome, completion_outcome>>

\* the Planner stage with any outcome of the statistics call
PlannerStage ==
  /\ \E stats \in StatsOutcomes : Planning(stats)
  /\ UNCHANGED <<chunker_vars, service_vars>>

\* 2. Retriever, and the early return when nothing was retrieved
Retrieving(found) ==
  /\ pc = "RETRIEVING"
  /\ LET r == _retriever(question, found)
     IN  /\ trace' = trace \o <<"Retriever">> \o r.calls
         /\ search_outcome' = found
         /\ IF r.raised
              THEN /\ fault' = Raise(r.error)
                   /\ pc' = "FAULT"
                   /\ UNCHANGED <<retrieved_chunks, result>>
              ELSE /\ retrieved_chunks' = r.value
                   /\ fault' = fault
                   /\ IF r.value = <<>>
                        THEN result' = NoChunksResult /\ pc' = "SHORT_CIRCUIT"
                        ELSE result' = result /\ pc' = "REASONING"
  /\ UNCHANGED <<question, plan, reasoning_result, validation_result,
                 stats_outcome, completion_outcome>>

\* the Retriever stage with any outcome of the search
RetrieverStage ==
  /\ \E found \in SearchOutcomes : Retrieving(found)
  /\ UNCHANGED <<chunker_vars, service_vars>>

\* the Reasoner stage returning early when the completion service fails
ReasonerStage_EarlyExit ==
  /\ pc = "REASONING"
  /\ \E completion \in CompletionOutcomes :
       /\ reasoning_result' = _reasoner(question, retrieved_chunks, completion)
       /\ completion_outcome' = completion
       /\ IF completion.ok
            THEN result' = result /\ pc' = "VALIDATING"
            ELSE /\ result' = [answer |-> ReasonerErrorAnswer, citations |-> <<>>,
                               confidence |-> "low", safety_flags |-> <<"llm_error">>,
                               reasoning |-> <<"L","L","M"," ","e","r","r","o","r"," ","d","u","r","i","n","g",
                                               " ","r","e","a","s","o","n","i","n","g">>]
                 /\ pc' = "SHORT_CIRCUIT"
  /\ trace' = trace \o <<"Reasoner", "generate_completion">>
  /\ UNCHANGED <<chunker_vars, service_vars>>
  /\ UNCHANGED <<question, plan, retrieved_chunks, validation_result, fault,
                 stats_outcome, search_outcome>>

\* 3. Reasoner
ReasonerStage ==
  /\ pc = "REASONING"
  /\ \E completion \in CompletionOutcomes :
       /\ reasoning_result' = _reasoner(question, retrieved_chunks, completion)
       /\ completion_outcome' = completion
  /\ trace' = trace \o <<"Reasoner", "generate_completion">>
  /\ pc' = "VALIDATING"
  /\ UNCHANGED <<chunker_vars, service_vars>>
  /\ UNCHANGED <<question, plan, retrieved_chunks, validation_result, result, fault,
                 stats_outcome, search_outcome>>

\* 4. Validator, and the early return when the draft is rejected
ValidatorStage ==
  /\ pc = "VALIDATING"
  /\ LET v == _validator(reasoning_result, retrieved_chunks)
     IN  /\ validation_result' = v
         /\ IF ~v.is_valid
              THEN result' = RejectedResult(v) /\ pc' = "SHORT_CIRCUIT"
              ELSE result' = result /\ pc' = "RESPONDING"
  /\ trace' = trace \o <<"Validator">>
  /\ UNCHANGED <<chunker_vars, service_vars>>
  /\ UNCHANGED <<question, plan, retrieved_chunks, reasoning_result, fault,
                 stats_outcome, search_outcome, completion_outcome>>

\* 5. Responder
ResponderStage ==
  /\ pc = "RESPONDING"
  /\ result' = _responder(reasoning_result, retrieved_chunks, validation_result)
  /\ trace' = trace \o <<"Responder">>
  /\ pc' = "DONE"
  /\ UNCHANGED <<chunker_vars, service_vars>>
  /\ UNCHANGED <<question, plan, retrieved_chunks, reasoning_result, validation_result,
                 fault, stats_outcome, search_outcome, completion_outcome>>

Next ==
  \/ ProcessQuestion
  \/ PlannerStage
  \/ RetrieverStage
  \/ ReasonerStage
  \/ ValidatorStage
  \/ ResponderStage

Spec == Init /\ [][Next]_vars

(***************************************************************************)
(* _validator and _assess_confidence as functions of their arguments: any  *)
(* draft, with or without a recorded error, and any list of chunks.        *)
(***************************************************************************)
Drafts == Answers \cup {ReasonerErrorAnswer}

InitValidator ==
  /\ pc = "VALIDATING"
  /\ question = <<>>
  /\ plan = NoValue
  /\ retrieved_chunks \in ChunkLists
  /\ reasoning_result \in
       {[answer |-> a, num_sources |-> Len(retrieved_chunks)] : a \in Drafts}
         \cup {[answer |-> a, num_sources |-> 0, error |-> e] :
                 a \in Drafts, e \in ErrorTexts}
  /\ validation_result = NoValue
  /\ result = NoValue
  /\ fault = NoValue
  /\ trace = <<>>
  /\ stats_outcome = NoValue
  /\ search_outcome = NoValue
  /\ completion_outcome = NoValue
  /\ TextChunker(500, 50)
  /\ Service

NextValidator == ValidatorStage

SpecValidator == InitValidator /\ [][NextValidator]_vars

(***************************************************************************)
(* core/chunker.py: one call of TextChunker.chunk_text, a step for each    *)
(* turn of its paragraph loop and of its sentence loop.                    *)
(***************************************************************************)
\* "\n\n".join(current_chunk), made a chunk
ParagraphChunk ==
  _create_chunk(join(<<"\n","\n">>, current_chunk), chunk_id, start_pos, metadata)

\* the chunk numbered by the sentence counter
SentenceChunk_SentenceId ==
  _create_chunk(join(<<" ">>, temp_chunk), sent_idx, start_pos, metadata)

\* " ".join(temp_chunk), made a chunk
SentenceChunk ==
  _create_chunk(join(<<" ">>, temp_chunk), chunk_id, start_pos, metadata)

\* the call, up to the paragraph loop
chunk_text(t, m) ==
  /\ cpc = "IDLE"
  /\ text' = t
  /\ metadata' = m
  /\ chunks' = <<>>
  /\ IF Blank(t)
       THEN /\ cpc' = "RETURNED"
            /\ UNCHANGED <<paragraphs, para_idx, current_chunk, current_size,
                           chunk_id, start_pos>>
       ELSE LET header == metadata_header(m)
                split == split_by_paragraphs(t)
            IN  /\ paragraphs' = IF Len(split) = 0 THEN <<t>> ELSE split
                /\ current_chunk' = IF Len(header) > 0 THEN <<header>> ELSE <<>>
                /\ current_size' = Len(header)
                /\ chunk_id' = 0
                /\ start_pos' = 0
                /\ para_idx' = 0
                /\ cpc' = "PARAGRAPHS"
  /\ UNCHANGED <<target_tokens, overlap_tokens, sentences, sent_idx, temp_chunk,
                 temp_size>>

\* chunk_text called with any text and any metadata
ChunkText ==
  /\ \E t \in Texts, m \in Metadatas : chunk_text(t, m)
  /\ UNCHANGED <<pipeline_vars, service_vars>>

\* a paragraph above 1.5 times the target: the pending chunk is saved and
\* the paragraph is split into sentences
OversizedParagraph ==
  /\ cpc = "PARAGRAPHS"
  /\ para_idx < Len(paragraphs)
  /\ Oversized(paragraphs[para_idx + 1], target_tokens)
  /\ IF Len(current_chunk) > 0
       THEN /\ chunks' = Append(chunks, ParagraphChunk)
            /\ chunk_id' = chunk_id + 1
            /\ current_chunk' = <<>>
            /\ current_size' = 0
       ELSE UNCHANGED <<chunks, chunk_id, current_chunk, current_size>>
  /\ sentences' = re_split(SentenceBreak, paragraphs[para_idx + 1])
  /\ temp_chunk' = <<>>
  /\ temp_size' = 0
  /\ sent_idx' = 0
  /\ cpc' = "SENTENCES"
  /\ UNCHANGED <<text, metadata, target_tokens, overlap_tokens, paragraphs, para_idx,
                 start_pos>>
  /\ UNCHANGED <<pipeline_vars, service_vars>>

\* one turn of the sentence loop
SentenceStep ==
  /\ cpc = "SENTENCES"
  /\ sent_idx < Len(sentences)
  /\ LET sent == sentences[sent_idx + 1]
         sent_size == Len(sent)
     IN  IF temp_size + sent_size > target_chars(target_tokens) /\ Len(temp_chunk) > 0
           THEN LET kept == KeepLastSentence(temp_chunk, overlap_tokens)
                IN  /\ chunks' = Append(chunks, SentenceChunk)
                    /\ chunk_id' = chunk_id + 1
                    /\ start_pos' = start_pos + Len(join(<<" ">>, temp_chunk))
                    /\ temp_chunk' = Append(kept, sent)
                    /\ temp_size' = KeptSize(kept) + sent_size
           ELSE /\ temp_chunk' = Append(temp_chunk, sent)
                /\ temp_size' = temp_size + sent_size
                /\ UNCHANGED <<chunks, chunk_id, start_pos>>
  /\ sent_idx' = sent_idx + 1
  /\ UNCHANGED <<text, metadata, target_tokens, overlap_tokens, cpc, paragraphs,
                 para_idx, current_chunk, current_size, sentences>>
  /\ UNCHANGED <<pipeline_vars, service_vars>>

\* the end of the sentence loop: the remaining sentences are saved
SentencesDone ==
  /\ cpc = "SENTENCES"
  /\ sent_idx = Len(sentences)
  /\ IF Len(temp_chunk) > 0
       THEN /\ chunks' = Append(chunks, SentenceChunk)
            /\ chunk_id' = chunk_id + 1
            /\ start_pos' = start_pos + Len(join(<<" ">>, temp_chunk))
       ELSE UNCHANGED <<chunks, chunk_id, start_pos>>
  /\ para_idx' = para_idx + 1
  /\ cpc' = "PARAGRAPHS"
  /\ UNCHANGED <<text, metadata, target_tokens, overlap_tokens, paragraphs,
                 current_chunk, current_size, sentences, sent_idx, temp_chunk,
                 temp_size>>
  /\ UNCHANGED <<pipeline_vars, service_vars>>

\* a paragraph within 1.5 times the target
NormalParagraph ==
  /\ cpc = "PARAGRAPHS"
  /\ para_idx < Len(paragraphs)
  /\ ~Oversized(paragraphs[para_idx + 1], target_tokens)
  /\ LET paragraph == paragraphs[para_idx + 1]
         para_size == Len(paragraph)
     IN  IF /\ current_size + para_size > target_chars(target_tokens)
            /\ Len(current_chunk) > 0
           THEN LET kept == KeepLastParagraph(current_chunk, overlap_tokens)
                IN  /\ chunks' = Append(chunks, ParagraphChunk)
                    /\ chunk_id' = chunk_id + 1
                    /\ start_pos' = start_pos + Len(join(<<"\n","\n">>, current_chunk))
                    /\ current_chunk' = Append(kept, paragraph)
                    /\ current_size' = KeptSize(kept) + para_size
           ELSE /\ current_chunk' = Append(current_chunk, paragraph)
                /\ current_size' = current_size + para_size
                /\ UNCHANGED <<chunks, chunk_id, start_pos>>
  /\ para_idx' = para_idx + 1
  /\ UNCHANGED <<text, metadata, target_tokens, overlap_tokens, cpc, paragraphs,
                 sentences, sent_idx, temp_chunk, temp_size>>
  /\ UNCHANGED <<pipeline_vars, service_vars>>

\* the list returned without the pending chunk
FinalFlush_NoSave ==
  /\ cpc = "PARAGRAPHS"
  /\ para_idx = Len(paragraphs)
  /\ chunks' = chunks
  /\ cpc' = "RETURNED"
  /\ UNCHANGED <<text, metadata, target_tokens, overlap_tokens, paragraphs, para_idx,
                 current_chunk, current_size, chunk_id, start_pos, sentences,
                 sent_idx, temp_chunk, temp_size>>
  /\ UNCHANGED <<pipeline_vars, service_vars>>

\* the end of the paragraph loop: the pending chunk is saved and the list
\* returned
FinalFlush ==
  /\ cpc = "PARAGRAPHS"
  /\ para_idx = Len(paragraphs)
  /\ chunks' = IF Len(current_chunk) > 0 THEN Append(chunks, ParagraphChunk)
               ELSE chunks
  /\ cpc' = "RETURNED"
  /\ UNCHANGED <<text, metadata, target_tokens, overlap_tokens, paragraphs, para_idx,
                 current_chunk, current_size, chunk_id, start_pos, sentences,
                 sent_idx, temp_chunk, temp_size>>
  /\ UNCHANGED <<pipeline_vars, service_vars>>

InitChunker ==
  /\ pc = "IDLE"
  /\ question = <<>>
  /\ plan = NoValue
  /\ retrieved_chunks = <<>>
  /\ reasoning_result = NoValue
  /\ validation_result = NoValue
  /\ result = NoValue
  /\ fault = NoValue
  /\ trace = <<>>
  /\ stats_outcome = NoValue
  /\ search_outcome = NoValue
  /\ completion_outcome = NoValue
  /\ \E s \in ChunkerSettings : TextChunker(s[1], s[2])
  /\ Service

NextChunker ==
  \/ ChunkText
  \/ OversizedParagraph
  \/ SentenceStep
  \/ SentencesDone
  \/ NormalParagraph
  \/ FinalFlush

SpecChunker == InitChunker /\ [][NextChunker]_vars

(***************************************************************************)
(* api/endpoints.py: the requests.  A handler that calls process_question  *)
(* or chunk_text is served in the steps of that call; the other handlers   *)
(* are one step.                                                           *)
(***************************************************************************)
\* open(path, "wb") and the copy of the uploaded bytes
WriteFile(dir, name, file) ==
  [f \in DOMAIN dir \cup {name} |-> IF f = name THEN file ELSE dir[f]]

\* os.remove(path)
RemoveFile(dir, name) == [f \in DOMAIN dir \ {name} |-> dir[f]]

\* HTTPException(status_code, detail) as the response of an endpoint
HttpError(endpoint, status_code, detail) ==
  [endpoint |-> endpoint, status_code |-> status_code, detail |-> detail]

\* the locals of process_question once it returned
PipelineReturns ==
  /\ pc' = "IDLE"
  /\ question' = <<>>
  /\ plan' = NoValue
  /\ retrieved_chunks' = <<>>
  /\ reasoning_result' = NoValue
  /\ validation_result' = NoValue
  /\ result' = NoValue
  /\ fault' = NoValue
  /\ trace' = <<>>
  /\ stats_outcome' = NoValue
  /\ search_outcome' = NoValue
  /\ completion_outcome' = NoValue

\* the locals of chunk_text once it returned
ChunkerReturns ==
  /\ cpc' = "IDLE"
  /\ text' = NoValue
  /\ metadata' = NoValue
  /\ paragraphs' = NoValue
  /\ para_idx' = NoValue
  /\ current_chunk' = NoValue
  /\ current_size' = NoValue
  /\ chunk_id' = NoValue
  /\ start_pos' = NoValue
  /\ chunks' = NoValue
  /\ sentences' = NoValue
  /\ sent_idx' = NoValue
  /\ temp_chunk' = NoValue
  /\ temp_size' = NoValue
  /\ UNCHANGED <<target_tokens, overlap_tokens>>

\* POST /ask-question: the request model and validate_question, then
\* process_question is entered
ask_question(q) ==
  /\ request = NoValue
  /\ pc = "IDLE"
  /\ LET checked == validate_question(q)
     IN  IF Len(q) < 1
           THEN /\ response' = HttpError("ask-question", 422,
                                         <<"S","t","r","i","n","g"," ","s","h","o","u","l","d"," ","h","a",
                                           "v","e"," ","a","t"," ","l","e","a","s","t"," ","1"," ","c","h",
                                           "a","r","a","c","t","e","r">>)
                /\ UNCHANGED <<request, pipeline_vars>>
         ELSE IF ~checked.is_valid
           THEN /\ response' = HttpError("ask-question", 400, checked.error_msg)
                /\ UNCHANGED <<request, pipeline_vars>>
         ELSE /\ \E k \in TopKs, c \in BOOLEAN :
                   request' = [question |-> q, top_k |-> k, include_citations |-> c]
              /\ process_question(q)
              /\ UNCHANGED response
  /\ UNCHANGED <<collection, uploads, issued, upload, clearing>>
  /\ UNCHANGED chunker_vars

\* an ask request with any of the questions
AskQuestion == \E q \in AskedQuestions : ask_question(q)

\* get_collection_stats on the collection as it is now; count() raises once
\* the collection is deleted
CollectionGone == <<"C","o","l","l","e","c","t","i","o","n"," ","d","o","c","u","m",
                    "e","n","t","s"," ","d","o","e","s"," ","n","o","t"," ","e","x",
                    "i","s","t",".">>

StatsNow ==
  IF collection = NoValue THEN Raise(CollectionGone)
  ELSE Return(get_collection_stats(collection.entries))

\* search on the collection as it is now: the embedding of the query or the
\* query of a deleted collection can raise
SearchNow ==
  IF collection = NoValue THEN {Raise(CollectionGone)}
  ELSE {Return(search(collection.entries, request.top_k, score)) :
          score \in SearchScores}
         \cup {Raise(e) : e \in ErrorTexts}

\* the Planner stage of the request
AskPlanner ==
  /\ request # NoValue
  /\ Planning(StatsNow)
  /\ UNCHANGED <<chunker_vars, service_vars>>

\* the Retriever stage of the request
AskRetriever ==
  /\ request # NoValue
  /\ \E found \in SearchNow : Retrieving(found)
  /\ UNCHANGED <<chunker_vars, service_vars>>

\* process_question returned or raised: the response of the ask endpoint
AskRespond ==
  /\ request # NoValue
  /\ pc \in {"DONE", "SHORT_CIRCUIT", "FAULT"}
  /\ response' =
       IF pc = "FAULT"
         THEN HttpError("ask-question", 500,
                        <<"A","n"," ","e","r","r","o","r"," ","o","c","c","u","r","r","e",
                          "d"," ","w","h","i","l","e"," ","p","r","o","c","e","s","s","i",
                          "n","g"," ","y","o","u","r"," ","q","u","e","s","t","i","o","n">>)
         ELSE [endpoint |-> "ask-question", status_code |-> 200,
               answer |-> result.answer,
               citations |-> IF request.include_citations
                               THEN Get(result, "citations", <<>>) ELSE <<>>,
               confidence |-> Get(result, "confidence", "medium"),
               safety_flags |-> Get(result, "safety_flags", <<>>),
               reasoning |-> Get(result, "reasoning", None)]
  /\ request' = NoValue
  /\ PipelineReturns
  /\ UNCHANGED <<collection, uploads, issued, upload, clearing>>
  /\ UNCHANGED chunker_vars

\* POST /upload-document up to the call of chunk_text: the extension check,
\* the file saved, the size check, process_document and the duplicate check
upload_document(filename, file) ==
  /\ upload = NoValue
  /\ LET saved == WriteFile(uploads, filename, file)
         processed_doc == process_document(saved[filename], filename)
         Rejected(dir, status_code, detail) ==
           /\ uploads' = dir
           /\ response' = HttpError("upload-document", status_code, detail)
           /\ UNCHANGED <<collection, issued, upload, chunker_vars>>
     IN  IF ~validate_file_extension(filename, allowed_extensions_list)
           THEN Rejected(uploads, 400,
                  <<"F","i","l","e"," ","t","y","p","e"," ","n","o","t"," ","a","l",
                    "l","o","w","e","d","."," ","A","l","l","o","w","e","d"," ","t",
                    "y","p","e","s",":"," ","p","d","f",",","t","x","t",",","c","s",
                    "v",",","x","l","s","x",",","d","o","c",",","d","o","c","x">>)
         ELSE IF ~validate_file_size(saved[filename].size, max_upload_bytes)
           THEN Rejected(RemoveFile(saved, filename), 413,
                  <<"F","i","l","e"," ","s","i","z","e"," ","e","x","c","e","e","d",
                    "s"," ","m","a","x","i","m","u","m"," ","o","f"," ","1","0","M",
                    "B">>)
         ELSE IF ~processed_doc.ok
           THEN Rejected(RemoveFile(saved, filename), 500,
                  <<"F","a","i","l","e","d"," ","t","o"," ","p","r","o","c","e","s",
                    "s"," ","d","o","c","u","m","e","n","t",":"," ">> \o processed_doc.error)
         ELSE IF collection = NoValue
           THEN Rejected(saved, 500, <<"A","n"," ","u","n","e","x","p","e","c","t","e","d"," ","e","r",
                                       "r","o","r"," ","o","c","c","u","r","r","e","d">>)
         ELSE LET existing ==
                    check_document_exists(collection.entries,
                                          processed_doc.value.metadata.file_hash)
              IN  IF existing.found
                    THEN /\ uploads' = saved
                         /\ response' =
                              [endpoint |-> "upload-document", status_code |-> 200,
                               doc_id |-> existing.doc_id,
                               filename |-> filename,
                               file_type |-> processed_doc.value.metadata.file_type,
                               num_chunks |-> 0,
                               message |->
                                 <<"D","o","c","u","m","e","n","t"," ","a","l","r","e","a","d","y",
                                   " ","e","x","i","s","t","s"," ","(","d","u","p","l","i","c","a",
                                   "t","e"," ","d","e","t","e","c","t","e","d",")">>]
                         /\ UNCHANGED <<collection, issued, upload, chunker_vars>>
                    ELSE /\ issued < MaxDocuments
                         /\ uploads' = saved
                         /\ upload' = [filename |-> filename,
                                       processed_doc |-> processed_doc.value]
                         /\ chunk_text(processed_doc.value.text,
                                       processed_doc.value.metadata)
                         /\ UNCHANGED <<collection, issued, response>>
  /\ UNCHANGED <<request, clearing>>
  /\ UNCHANGED pipeline_vars

\* an upload request with any of the files under any of the names
UploadDocument ==
  \E filename \in Filenames, file \in FileContents : upload_document(filename, file)

\* POST /upload-document behind chunk_text: no chunk is an error and the
\* file is removed; otherwise the chunks are added under a new document id
UploadIndex ==
  /\ upload # NoValue
  /\ cpc = "RETURNED"
  /\ IF Len(chunks) = 0
       THEN /\ uploads' = RemoveFile(uploads, upload.filename)
            /\ response' = HttpError("upload-document", 400,
                 <<"C","o","u","l","d"," ","n","o","t"," ","e","x","t","r","a","c",
                   "t"," ","t","e","x","t"," ","f","r","o","m"," ","d","o","c","u",
                   "m","e","n","t",".">>)
            /\ UNCHANGED <<collection, issued>>
       ELSE \E embeddings \in EmbeddingOutcomes :
              LET doc_id == DocId(issued + 1)
              IN  /\ issued' = issued + 1
                  /\ uploads' = uploads
                  /\ IF ~embeddings.ok \/ collection = NoValue
                       THEN /\ response' = HttpError("upload-document", 500,
                                                     <<"A","n"," ","u","n","e","x","p","e","c","t","e","d"," ","e","r",
                                                       "r","o","r"," ","o","c","c","u","r","r","e","d">>)
                            /\ UNCHANGED collection
                       ELSE /\ collection' =
                                 [entries |->
                                    add_documents(collection.entries, chunks, doc_id)]
                            /\ response' =
                                 [endpoint |-> "upload-document", status_code |-> 200,
                                  doc_id |-> doc_id,
                                  filename |-> upload.filename,
                                  file_type |-> upload.processed_doc.metadata.file_type,
                                  num_chunks |-> Len(chunks),
                                  message |->
                                    <<"D","o","c","u","m","e","n","t"," ","u","p","l","o","a","d","e",
                                      "d"," ","a","n","d"," ","i","n","d","e","x","e","d"," ","s","u",
                                      "c","c","e","s","s","f","u","l","l","y">>]
  /\ upload' = NoValue
  /\ ChunkerReturns
  /\ UNCHANGED <<request, clearing>>
  /\ UNCHANGED pipeline_vars

\* DELETE /delete-document/{doc_id}: the entries of the document are
\* deleted; its file stays in ./uploads
DeleteDocument ==
  /\ \E doc_id \in DocIds :
       IF collection = NoValue
         THEN /\ response' = HttpError("delete-document", 500,
                                       <<"F","a","i","l","e","d"," ","t","o"," ","d","e","l","e","t","e",
                                         " ","d","o","c","u","m","e","n","t">>)
              /\ UNCHANGED collection
         ELSE /\ collection' = [entries |-> delete_document(collection.entries, doc_id)]
              /\ response' = [endpoint |-> "delete-document", status_code |-> 200,
                              message |-> <<"D","o","c","u","m","e","n","t"," ">> \o doc_id
                                            \o <<" ","d","e","l","e","t","e","d"," ","s","u","c","c","e","s","s",
                                                 "f","u","l","l","y">>]
  /\ UNCHANGED <<uploads, issued, upload, request, clearing>>
  /\ UNCHANGED <<pipeline_vars, chunker_vars>>

\* the message of the clear endpoint
Cleared(count) ==
  [endpoint |-> "clear-all-documents", status_code |-> 200,
   message |-> <<"C","l","e","a","r","e","d"," ">> \o IntToStr(count) \o <<" ","d","o","c","u","m","e","n","t","s"," ","s","u","c","c","e",
                                                    "s","s","f","u","l","l","y">>]

\* POST /clear-all-documents served without interruption: the collection is
\* counted, deleted and created again
ClearAllDocuments ==
  /\ collection # NoValue
  /\ clearing = NoValue
  /\ collection' = [entries |-> <<>>]
  /\ response' = Cleared(Len(collection.entries))
  /\ UNCHANGED <<uploads, issued, upload, request, clearing>>
  /\ UNCHANGED <<pipeline_vars, chunker_vars>>

\* clear_all_documents up to delete_collection
ClearDelete ==
  /\ collection # NoValue
  /\ clearing = NoValue
  /\ clearing' = [count |-> Len(collection.entries)]
  /\ collection' = NoValue
  /\ UNCHANGED <<uploads, issued, upload, request, response>>
  /\ UNCHANGED <<pipeline_vars, chunker_vars>>

\* clear_all_documents from create_collection on
ClearCreate ==
  /\ clearing # NoValue
  /\ collection' = [entries |-> <<>>]
  /\ response' = Cleared(clearing.count)
  /\ clearing' = NoValue
  /\ UNCHANGED <<uploads, issued, upload, request>>
  /\ UNCHANGED <<pipeline_vars, chunker_vars>>

\* the response has left the service
SendResponse ==
  /\ response # NoValue
  /\ response' = NoValue
  /\ UNCHANGED <<collection, uploads, issued, upload, request, clearing>>
  /\ UNCHANGED <<pipeline_vars, chunker_vars>>

\* one answer of the completion service, and its failure
ServiceCompletions ==
  {Return(<<"R","e","v","e","n","u","e"," ","g","r","e","w"," ","b","y"," ",
            "5","0","%",".">>)} \cup {Raise(e) : e \in ErrorTexts}

\* the Reasoner stage of the request
AskReasoner ==
  /\ request # NoValue
  /\ ReasonerStage
  /\ completion_outcome' \in ServiceCompletions

\* no request is being served and no response is waiting
Quiet ==
  /\ pc = "IDLE"
  /\ upload = NoValue
  /\ clearing = NoValue
  /\ response = NoValue

\* no upload is being served and no response is waiting
Ready == upload = NoValue /\ response = NoValue

\* the requests served one after the other, as the event loop serves
\* handlers that never await
NextService ==
  \/ Quiet /\ AskQuestion
  \/ AskPlanner
  \/ AskRetriever
  \/ AskReasoner
  \/ request # NoValue /\ ValidatorStage
  \/ request # NoValue /\ ResponderStage
  \/ AskRespond
  \/ Quiet /\ UploadDocument
  \/ upload # NoValue /\ NormalParagraph
  \/ upload # NoValue /\ FinalFlush
  \/ UploadIndex
  \/ Quiet /\ DeleteDocument
  \/ Quiet /\ ClearAllDocuments
  \/ SendResponse

SpecService == Init /\ [][NextService]_vars

\* an ask request served at the same time as uploads, deletions and clears
\* of other requests: the steps of process_question interleave with them
\* and with the two store calls of clear_all_documents; the files uploaded
\* meanwhile all have the name a.txt
NextConcurrent ==
  \/ Ready /\ AskQuestion
  \/ Ready /\ AskPlanner
  \/ Ready /\ AskRetriever
  \/ Ready /\ AskReasoner
  \/ Ready /\ request # NoValue /\ ValidatorStage
  \/ Ready /\ request # NoValue /\ ResponderStage
  \/ Ready /\ AskRespond
  \/ Ready /\ UploadDocument /\ DOMAIN uploads' \subseteq {<<"a",".","t","x","t">>}
  \/ upload # NoValue /\ NormalParagraph
  \/ upload # NoValue /\ FinalFlush
  \/ UploadIndex
  \/ Ready /\ DeleteDocument
  \/ Ready /\ ClearDelete
  \/ Ready /\ ClearCreate
  \/ SendResponse

SpecConcurrent == Init /\ [][NextConcurrent]_vars

(***************************************************************************)
(* Properties                                                              *)
(***************************************************************************)
InTrace(x) == \E i \in 1..Len(trace) : trace[i] = x

Returned == pc \in {"DONE", "SHORT_CIRCUIT"}

ResultFields == {"answer", "citations", "confidence", "safety_flags", "reasoning"}

SearchRaised == search_outcome # NoValue /\ ~search_outcome.ok

SearchReturnedNothing ==
  search_outcome # NoValue /\ search_outcome.ok /\ search_outcome.value = <<>>

CompletionRaised == completion_outcome # NoValue /\ ~completion_outcome.ok

\* C1: whatever the collaborators do, process_question returns a result with
\* the five fields and no exception leaves it.
C1_NoExceptionEscapes ==
  /\ pc # "FAULT"
  /\ fault = NoValue
  /\ Returned => DOMAIN result = ResultFields

\* C2: a result returned at a short-circuit exit has no citations and
\* confidence "low"; citations are non-empty only if the Responder ran, and
\* always when it ran.
C2_CitationsOnlyFromResponder ==
  Returned =>
    /\ pc = "SHORT_CIRCUIT" => result.citations = <<>> /\ result.confidence = "low"
    /\ result.citations # <<>> => InTrace("Responder")
    /\ InTrace("Responder") => result.citations # <<>>

C2_Witness ==
  /\ pc = "DONE"
  /\ Len(result.citations) = Len(retrieved_chunks)
  /\ Len(result.citations) > 1
  /\ result.confidence = "low"

\* C3: the Planner checks injection, then the empty knowledge base, then the
\* vague question, and reports exactly one flag; its short-circuits return
\* no citations.
C3_PlannerPriority ==
  (pc = "RETRIEVING" \/ (pc = "SHORT_CIRCUIT" /\ ~InTrace("Retriever"))) =>
    LET flagged == detect_prompt_injection(question).is_injection
        early == pc = "SHORT_CIRCUIT" /\ ~InTrace("Retriever")
    IN  IF flagged
          THEN early /\ result.safety_flags = <<"prompt_injection">>
                 /\ result.citations = <<>>
        ELSE IF stats_outcome = NoValue
          THEN FALSE
        ELSE IF stats_outcome.value.total_chunks = 0
          THEN early /\ result.safety_flags = <<"empty_knowledge_base">>
                 /\ result.citations = <<>>
        ELSE IF Len(Strip(question)) < 10
          THEN early /\ result.safety_flags = <<"vague_question">>
                 /\ result.citations = <<>>
        ELSE ~early /\ plan.needs_retrieval /\ plan.safety_flags = <<>>

C3_Witness ==
  /\ pc = "SHORT_CIRCUIT"
  /\ result.safety_flags = <<"empty_knowledge_base">>
  /\ Len(Strip(question)) < 10
  /\ Len(question) >= 10

\* the agents and the collaborator calls of one run, in the order of the code
StageOrder ==
  <<"Planner", "get_collection_stats", "Retriever", "search",
    "Reasoner", "generate_completion", "Validator", "Responder">>

Rank(x) == CHOOSE k \in 1..Len(StageOrder) : StageOrder[k] = x

\* C4: the stages and their collaborator calls happen in the order Planner
\* (collection stats), Retriever (search), Reasoner (completion), Validator,
\* Responder, each at most once, and a stage runs only if no earlier stage
\* ended the run.
C4_StagesInOrderAtMostOnce ==
  /\ \A i \in 1..Len(trace) : \E k \in 1..Len(StageOrder) : trace[i] = StageOrder[k]
  /\ \A i, j \in 1..Len(trace) : i < j => Rank(trace[i]) < Rank(trace[j])
  /\ \A k \in 3..Len(StageOrder) : InTrace(StageOrder[k]) => InTrace(StageOrder[k - 1])
  /\ InTrace("get_collection_stats") => InTrace("Planner")
  /\ (InTrace("get_collection_stats") /\ ~InTrace("Retriever"))
       => ~detect_prompt_injection(question).is_injection
  /\ InTrace("search") =>
       "needs_retrieval" \in DOMAIN plan /\ plan.needs_retrieval
  /\ InTrace("generate_completion") => retrieved_chunks # <<>>
  /\ InTrace("Responder") =>
       "is_valid" \in DOMAIN validation_result /\ validation_result.is_valid

C4_Witness ==
  /\ pc = "SHORT_CIRCUIT"
  /\ SearchRaised
  /\ trace = <<"Planner", "get_collection_stats", "Retriever", "search">>

\* C5 as claimed: SHORT_CIRCUIT is entered only from PLANNING or VALIDATING.
C5_ShortCircuitOnlyFromPlanningOrValidating ==
  [][(pc' = "SHORT_CIRCUIT" /\ pc # "SHORT_CIRCUIT")
       => pc \in {"PLANNING", "VALIDATING"}]_vars

\* C5 amended: SHORT_CIRCUIT is entered only from PLANNING, RETRIEVING or
\* VALIDATING, and a run at REASONING always goes on to VALIDATING.
C5_ShortCircuitFromPlanningRetrievingValidating ==
  [][/\ (pc' = "SHORT_CIRCUIT" /\ pc # "SHORT_CIRCUIT")
          => pc \in {"PLANNING", "RETRIEVING", "VALIDATING"}
     /\ (pc = "REASONING" /\ pc' # pc) => pc' = "VALIDATING"]_vars

C5_Witness ==
  /\ pc = "SHORT_CIRCUIT"
  /\ InTrace("Retriever")
  /\ ~InTrace("Reasoner")
  /\ result = NoChunksResult

\* C6: a search that raises and a search that returns no chunk end the run
\* alike: the fixed "no documents" result, before the Reasoner, and no
\* exception leaves process_question.
C6_SearchFailureLikeEmptySearch ==
  (SearchRaised \/ SearchReturnedNothing) =>
    /\ pc = "SHORT_CIRCUIT"
    /\ fault = NoValue
    /\ result.answer = NoDocumentsAnswer
    /\ result.citations = <<>>
    /\ result.confidence = "low"
    /\ result.safety_flags = <<>>
    /\ result = NoChunksResult
    /\ ~InTrace("Reasoner")
    /\ ~InTrace("generate_completion")

C6_Witness ==
  /\ SearchRaised
  /\ pc = "SHORT_CIRCUIT"
  /\ result.answer = NoDocumentsAnswer

HasFlag(flags, f) == \E i \in 1..Len(flags) : flags[i] = f

\* C7: when the completion service raises, the Validator rejects the run:
\* no citations, confidence "low", the flag "llm_error" and the Validator's
\* fixed message; the Responder is not reached and the answer is neither the
\* Reasoner's substituted text nor the error text.
C7_CompletionFailureRejected ==
  CompletionRaised =>
    /\ pc \in {"VALIDATING", "SHORT_CIRCUIT"}
    /\ ~InTrace("Responder")
    /\ pc = "SHORT_CIRCUIT" =>
         /\ InTrace("Validator")
         /\ result.citations = <<>>
         /\ result.confidence = "low"
         /\ HasFlag(result.safety_flags, "llm_error")
         /\ result.answer = LlmErrorFallback
         /\ result.answer # reasoning_result.answer
         /\ ~Contains(completion_outcome.error, result.answer)

C7_Witness ==
  /\ CompletionRaised
  /\ pc = "SHORT_CIRCUIT"
  /\ result.safety_flags = <<"injection_in_context", "llm_error">>

SafetyTags ==
  {"prompt_injection", "empty_knowledge_base", "vague_question",
   "injection_in_context", "answer_too_short", "llm_error"}

\* no field of the returned result carries the error text e
NoErrorText(e) ==
  /\ ~Contains(e, result.answer)
  /\ ~Contains(e, result.reasoning)
  /\ \A i \in 1..Len(result.safety_flags) : result.safety_flags[i] \in SafetyTags
  /\ result.citations = <<>>

\* C8 as claimed: after a failure of the search or of the completion service
\* the Validator has run and the answer is one of its fixed messages, and no
\* field of the result carries the error text.
C8_EveryFailureCaughtByValidator ==
  (Returned /\ (SearchRaised \/ CompletionRaised)) =>
    /\ InTrace("Validator")
    /\ result.answer \in {TooShortFallback, LlmErrorFallback}
    /\ SearchRaised => NoErrorText(search_outcome.error)
    /\ CompletionRaised => NoErrorText(completion_outcome.error)

\* C8 amended: a failure of the search ends the run at the no-retrieval exit
\* with the fixed "no documents" message and the Validator does not run; a
\* failure of the completion service is caught by the Validator and becomes
\* its fixed message; in both cases no field of the result carries the error
\* text.
C8_FailuresDegradedToFixedMessages ==
  /\ (Returned /\ SearchRaised) =>
       /\ ~InTrace("Validator")
       /\ result.answer = NoDocumentsAnswer
       /\ NoErrorText(search_outcome.error)
  /\ (Returned /\ CompletionRaised) =>
       /\ InTrace("Validator")
       /\ result.answer = LlmErrorFallback
       /\ NoErrorText(completion_outcome.error)

C8_Witness ==
  /\ Returned
  /\ CompletionRaised
  /\ result.reasoning = validation_result.reason
  /\ ~InTrace("Responder")

\* the draft of the state has fewer than 20 characters once trimmed and holds
\* none of the "no information" phrases
DraftTooShort ==
  /\ Len(Strip(reasoning_result.answer)) < 20
  /\ \A k \in 1..Len(no_info_phrases) :
       ~Contains(no_info_phrases[k], Lower(reasoning_result.answer))

DraftHasError == "error" \in DOMAIN reasoning_result

Validated == validation_result # NoValue

\* C9: the Validator rejects exactly a draft that is too short or carries a
\* Reasoner error; the length check comes first, and a rejection appends one
\* reason flag to the context flags.
C9_ValidatorRejection ==
  Validated =>
    LET context == ContextFlags(retrieved_chunks)
    IN  /\ validation_result.is_valid = ~(DraftTooShort \/ DraftHasError)
        /\ DraftTooShort =>
             validation_result.safety_flags = context \o <<"answer_too_short">>
        /\ (~DraftTooShort /\ DraftHasError) =>
             validation_result.safety_flags = context \o <<"llm_error">>
        /\ validation_result.is_valid => validation_result.safety_flags = context
        /\ (Len(Strip(reasoning_result.answer)) < 20 /\ ~DraftTooShort /\ ~DraftHasError)
             => validation_result.is_valid

C9_Witness ==
  /\ Validated
  /\ DraftTooShort
  /\ DraftHasError
  /\ validation_result.safety_flags = <<"injection_in_context", "answer_too_short">>

\* the answer of the state holds a hedging phrase, in any case
Hedged ==
  \E k \in 1..Len(uncertain_phrases) :
     Contains(uncertain_phrases[k], Lower(reasoning_result.answer))

\* C10: no chunks give low; otherwise an average score above 0.8 without a
\* hedging phrase gives high, else an average above 0.6 gives medium, else
\* low; both thresholds are strict and a hedged answer is never high.
C10_ConfidenceRule ==
  (Validated /\ validation_result.is_valid) =>
    LET n == Len(retrieved_chunks)
        sum == SumScores(retrieved_chunks)
        confidence == validation_result.confidence
    IN  /\ n = 0 => confidence = "low"
        /\ (n > 0 /\ 10 * sum > 8 * 10000 * n /\ ~Hedged) => confidence = "high"
        /\ (n > 0 /\ ~(10 * sum > 8 * 10000 * n /\ ~Hedged) /\ 10 * sum > 6 * 10000 * n)
             => confidence = "medium"
        /\ (n > 0 /\ ~(10 * sum > 6 * 10000 * n)) => confidence = "low"
        /\ (n > 0 /\ 10 * sum = 8 * 10000 * n) => confidence = "medium"
        /\ (n > 0 /\ 10 * sum = 6 * 10000 * n) => confidence = "low"
        /\ Hedged => confidence # "high"

C10_Witness ==
  /\ Validated
  /\ validation_result.is_valid
  /\ ~Hedged
  /\ Len(retrieved_chunks) = 2
  /\ SumScores(retrieved_chunks) = 16000
  /\ validation_result.confidence = "medium"

\* the run went through the Responder
Responded == pc = "DONE" /\ InTrace("Responder")

\* C11: on the success path the result carries exactly one citation per
\* retrieved chunk, in retrieval order and without de-duplication: citation i
\* holds the document id, filename, page count, sheet count and chunk id of
\* the metadata of chunk i and its score rounded to 3 decimals, and the
\* reasoning note reports the same number of chunks.
C11_OneCitationPerChunk ==
  Responded =>
    /\ Len(result.citations) = Len(retrieved_chunks)
    /\ \A i \in 1..Len(retrieved_chunks) :
         LET chunk == retrieved_chunks[i]
             citation == result.citations[i]
         IN  /\ citation.doc_id = chunk.metadata.doc_id
             /\ citation.filename = chunk.metadata.filename
             /\ citation.chunk_id = chunk.metadata.chunk_id
             /\ citation.page = IF "num_pages" \in DOMAIN chunk.metadata
                                  THEN chunk.metadata.num_pages ELSE None
             /\ citation.sheet = None
             /\ citation.score \in {chunk.score - d : d \in -5..4}
             /\ citation.score % 10 = 0
    /\ result.reasoning = <<"U","s","e","d"," ">>
                            \o IntToStr(Len(result.citations))
                            \o <<" ","s","o","u","r","c","e"," ","c","h","u","n","k","s">>

\* the same chunk retrieved twice is cited twice, and a score is rounded
C11_Witness ==
  /\ Responded
  /\ Len(retrieved_chunks) = 2
  /\ retrieved_chunks[1] = retrieved_chunks[2]
  /\ Len(result.citations) = 2
  /\ result.citations[1] = result.citations[2]
  /\ retrieved_chunks[1].score = 9004
  /\ result.citations[1].score = 9000

\* chunk_text was called: its locals and its chunk list exist
Called == cpc # "IDLE"

\* chunk_text returned
ChunksReturned == cpc = "RETURNED"

\* chunk_text returned from the end of its paragraph loop
LoopReturned == ChunksReturned /\ Len(Strip(text)) > 0

\* C12: the chunks carry the ids 0, 1, 2, ... in emission order, whichever
\* flush emitted them (a paragraph-level flush, a sentence-level flush of an
\* oversized paragraph or the final flush), for every text, metadata and
\* chunker setting.
C12_SequentialChunkIds ==
  Called => \A i \in 1..Len(chunks) : chunks[i].chunk_id = i - 1

\* a pending paragraph saved in front of an oversized paragraph, the
\* sentence-level chunks of that paragraph and a final chunk behind it
C12_Witness ==
  /\ LoopReturned
  /\ Len(paragraphs) = 3
  /\ ~Oversized(paragraphs[1], target_tokens)
  /\ Oversized(paragraphs[2], target_tokens)
  /\ ~Oversized(paragraphs[3], target_tokens)
  /\ Len(chunks) = 5
  /\ chunks[5].chunk_id = 4
  /\ chunks[5].text = paragraphs[3]

RECURSIVE UnitsFrom(_, _, _)
\* the units of the paragraphs k, k + 1, ... in original order: a paragraph,
\* or the sentences of a paragraph above 1.5 times the target
UnitsFrom(ps, k, target) ==
  IF k > Len(ps) THEN <<>>
  ELSE (IF Oversized(ps[k], target) THEN re_split(SentenceBreak, ps[k])
        ELSE <<ps[k]>>)
       \o UnitsFrom(ps, k + 1, target)

RECURSIVE InOrder(_, _, _, _)
\* the units k, k + 1, ... each stand in a chunk, from chunk i on and never
\* in an earlier chunk than the unit before
InOrder(units, k, cs, i) ==
  IF k > Len(units) THEN TRUE
  ELSE \E j \in i..Len(cs) :
          /\ Contains(units[k], cs[j].text)
          /\ InOrder(units, k + 1, cs, j)

\* s.endswith(tail)
EndsWith(s, tail) ==
  Len(tail) <= Len(s) /\ StartsAt(s, Len(s) - Len(tail) + 1, tail)

\* C13: every paragraph of the paragraph split, and every sentence of every
\* oversized paragraph, stands in at least one returned chunk, in original
\* order; what is buffered when the text ends is saved as the last chunk.
C13_Coverage ==
  LoopReturned =>
    /\ InOrder(UnitsFrom(split_by_paragraphs(text), 1, target_tokens), 1, chunks, 1)
    /\ Len(current_chunk) > 0 =>
         /\ Len(chunks) > 0
         /\ EndsWith(chunks[Len(chunks)].text, join(<<"\n","\n">>, current_chunk))

\* three sentences of an oversized paragraph between two short paragraphs,
\* the last one saved by the final flush
C13_Witness ==
  /\ LoopReturned
  /\ metadata = NoMetadata
  /\ Len(UnitsFrom(split_by_paragraphs(text), 1, target_tokens)) = 5
  /\ Oversized(paragraphs[2], target_tokens)
  /\ current_chunk = <<paragraphs[3]>>
  /\ chunks[Len(chunks)].text = paragraphs[3]

RECURSIVE TextLengths(_, _)
\* the total length of the texts of the first n chunks
TextLengths(cs, n) ==
  IF n = 0 THEN 0 ELSE TextLengths(cs, n - 1) + Len(cs[n].text)

\* C14: start_pos of every chunk is the total length of the texts of the
\* chunks emitted before it, so that it equals end_pos of the chunk before,
\* and end_pos is start_pos plus the length of the chunk's text; also for
\* the chunk behind a pending chunk saved in front of an oversized
\* paragraph, and for chunks that carry the document reference.
C14_PositionalBookkeeping ==
  Called =>
    \A k \in 1..Len(chunks) :
       /\ chunks[k].start_pos = TextLengths(chunks, k - 1)
       /\ k > 1 => chunks[k].start_pos = chunks[k - 1].end_pos
       /\ chunks[k].end_pos = chunks[k].start_pos + Len(chunks[k].text)

\* C15: start_pos and end_pos never decrease from a chunk to a later one.
C15_PositionsMonotone ==
  Called =>
    \A i, j \in 1..Len(chunks) :
       i < j => /\ chunks[i].start_pos <= chunks[j].start_pos
                /\ chunks[i].end_pos <= chunks[j].end_pos

\* a step of chunk_text that saves a chunk
Saves == cpc # "IDLE" /\ Len(chunks') = Len(chunks) + 1

\* the buffer chunks are built from: the sentences inside the sentence loop,
\* the paragraphs outside it
Buffer == IF cpc = "SENTENCES" THEN temp_chunk ELSE current_chunk

\* the last unit of the buffer a saving step saves
TrailingUnit == Buffer[Len(Buffer)]

\* the units of the saved buffer that are in the buffer of the next chunk
\* after the step, beside the unit the step itself appends
Carried ==
  IF SentenceStep \/ NormalParagraph
    THEN SubSeq(Buffer', 1, Len(Buffer') - 1)
    ELSE Buffer'

\* a further chunk follows the chunk the step saves
HasSuccessor ==
  /\ ~FinalFlush
  /\ ~(SentencesDone /\ para_idx' = Len(paragraphs))

\* C16 as stated: when the last unit of a saved chunk (its last paragraph,
\* or its last sentence inside an oversized paragraph) is no longer than
\* overlap_chars, the next chunk begins with that unit, and otherwise the
\* next chunk repeats no unit of it; a chunk's text begins with the first
\* unit of its buffer.
C16_OverlapWheneverUnitFits ==
  [][Saves =>
       /\ StartsAt(chunks'[Len(chunks')].text, 1, Buffer[1])
       /\ HasSuccessor =>
            IF Len(TrailingUnit) <= overlap_chars(overlap_tokens)
              THEN Len(Buffer') > 0 /\ Buffer'[1] = TrailingUnit
              ELSE Carried = <<>>]_vars

\* the document reference in front of every chunk but the first
Reference ==
  IF /\ Len(chunks) > 0
     /\ "filename" \in DOMAIN metadata
     /\ "num_pages" \in DOMAIN metadata
    THEN metadata_context(metadata)
    ELSE <<>>

\* C16, amended: a chunk saved by the paragraph-level flush of a normal
\* paragraph carries its last unit over when an overlap is configured and
\* the unit is no longer than overlap_chars; a chunk saved inside the
\* sentence loop carries its last sentence over whenever an overlap is
\* configured, whatever its length; the pending chunk saved in front of an
\* oversized paragraph and the last chunk of an oversized paragraph carry
\* nothing over.  A buffer only grows at its end until it is saved, and the
\* text of a chunk is its buffer joined, behind the document reference if
\* it has one, so the next chunk begins with the unit carried over.
C16_OverlapByFlushKind ==
  [][/\ Saves =>
          /\ NormalParagraph =>
               Carried = IF /\ overlap_chars(overlap_tokens) > 0
                            /\ Len(TrailingUnit) <= overlap_chars(overlap_tokens)
                           THEN <<TrailingUnit>> ELSE <<>>
          /\ SentenceStep =>
               Carried = IF overlap_chars(overlap_tokens) > 0
                           THEN <<TrailingUnit>> ELSE <<>>
          /\ (OversizedParagraph \/ SentencesDone) => Carried = <<>>
          /\ chunks'[Len(chunks')].text =
               Reference \o join(IF cpc = "SENTENCES" THEN <<" ">>
                                 ELSE <<"\n","\n">>, Buffer)
     /\ ((SentenceStep \/ NormalParagraph) /\ ~Saves) =>
          SubSeq(Buffer', 1, Len(Buffer)) = Buffer]_vars

\* a sentence longer than overlap_chars that ends one chunk and begins the
\* next one
C16_Witness ==
  /\ LoopReturned
  /\ metadata = NoMetadata
  /\ overlap_tokens = 1
  /\ Oversized(paragraphs[Len(paragraphs)], target_tokens)
  /\ \E i \in 1..(Len(chunks) - 1) :
        \E k \in 1..Len(sentences) :
           /\ Len(sentences[k]) > overlap_chars(overlap_tokens)
           /\ EndsWith(chunks[i].text, sentences[k])
           /\ StartsAt(chunks[i + 1].text, 1, sentences[k])
           /\ chunks[i + 1].text # sentences[k]

\* the document has no paragraph above 1.5 times the target
NoOversized ==
  \A k \in 1..Len(paragraphs) : ~Oversized(paragraphs[k], target_tokens)

\* the length of the longest paragraph of the document
LongestParagraph ==
  CHOOSE n \in {Len(paragraphs[k]) : k \in 1..Len(paragraphs)} :
    \A k \in 1..Len(paragraphs) : Len(paragraphs[k]) <= n

\* C17 as stated: in a document without oversized paragraph no chunk is
\* longer than target_chars plus the length of one paragraph.
C17_SizeWithinTargetPlusParagraph ==
  (LoopReturned /\ NoOversized) =>
    \A i \in 1..Len(chunks) :
       Len(chunks[i].text) <= target_chars(target_tokens) + LongestParagraph

RECURSIVE UnitLengths(_, _)
\* the total length of the first n units
UnitLengths(units, n) ==
  IF n = 0 THEN 0 ELSE UnitLengths(units, n - 1) + Len(units[n])

\* C17, amended: in a document without oversized paragraph the length of a
\* chunk is the total length of its units (its paragraphs, and the banner in
\* the first chunk), 2 for every separator between them and the length of
\* the document reference in front; the total length of the units is at
\* most target_chars, except in a chunk of a single unit and in a chunk of
\* two units whose first unit is no longer than overlap_chars.
C17_UnitsWithinTarget ==
  [][(Saves /\ NoOversized) =>
       /\ current_size = UnitLengths(current_chunk, Len(current_chunk))
       /\ Len(chunks'[Len(chunks')].text) =
            Len(Reference) + current_size + 2 * (Len(current_chunk) - 1)
       /\ \/ current_size <= target_chars(target_tokens)
          \/ Len(current_chunk) = 1
          \/ /\ Len(current_chunk) = 2
             /\ Len(current_chunk[1]) <= overlap_chars(overlap_tokens)]_vars

\* four paragraphs of one character in one chunk of ten characters, the
\* target being four characters
C17_Witness ==
  /\ LoopReturned
  /\ NoOversized
  /\ metadata = NoMetadata
  /\ Len(paragraphs) = 4
  /\ Len(chunks) = 1
  /\ current_size = target_chars(target_tokens)
  /\ Len(chunks[1].text) = 10
  /\ Len(chunks[1].text) > target_chars(target_tokens) + LongestParagraph

\* the text is a single paragraph shorter than target_chars
SingleShortParagraph ==
  /\ Len(split_by_paragraphs(text)) = 1
  /\ Len(split_by_paragraphs(text)[1]) < target_chars(target_tokens)

\* C18: a text that is a single paragraph shorter than target_chars gives
\* exactly one chunk, with any metadata or none; without metadata the text
\* of that chunk is the stripped input.
C18_SingleParagraphOneChunk ==
  (LoopReturned /\ SingleShortParagraph) =>
    /\ Len(chunks) = 1
    /\ metadata = NoMetadata => chunks[1].text = Strip(text)

\* C19: when metadata, a mapping that is not empty, is given to chunk_text,
\* the text of the first chunk starts with the metadata banner, and every
\* chunk (the first one, the chunks of the sentences of an oversized
\* paragraph and the final one) has a metadata field equal to the whole
\* mapping.
C19_MetadataPropagation ==
  (Called /\ Truthy(metadata)) =>
    /\ \A i \in 1..Len(chunks) :
         /\ "metadata" \in DOMAIN chunks[i]
         /\ chunks[i].metadata = metadata
    /\ Len(chunks) > 0 =>
         /\ StartsAt(chunks[1].text, 1, metadata_header(metadata))
         /\ StartsAt(chunks[1].text, 1,
                     <<"=","=","="," ","D","O","C","U","M","E","N","T"," ","M","E","T",
                       "A","D","A","T","A"," ","=","=","=","\n","F","i","l","e","n",
                       "a","m","e",":"," ">>
                       \o metadata.filename \o <<"\n">>)
         /\ Contains(<<"=","=","="," ","E","N","D"," ","M","E","T","A","D","A","T","A",
                       " ","=","=","=","\n">>, chunks[1].text)

\* the banner in the first chunk, the chunks of the sentences of an
\* oversized paragraph and a final chunk, all with the metadata
C19_Witness ==
  /\ LoopReturned
  /\ Truthy(metadata)
  /\ "doc_id" \in DOMAIN metadata
  /\ Len(paragraphs) = 3
  /\ Oversized(paragraphs[2], target_tokens)
  /\ Len(chunks) > 3
  /\ StartsAt(chunks[1].text, 1, metadata_header(metadata))
  /\ chunks[1].metadata = metadata
  /\ chunks[Len(chunks)].text = paragraphs[3]
  /\ chunks[Len(chunks)].metadata = metadata

\* C20: chunk_text returns no chunk for a text that is empty or holds only
\* white space, with or without metadata: the banner alone is never made a
\* chunk of such a text.
C20_BlankTextNoChunks ==
  (ChunksReturned /\ Len(Strip(text)) = 0) => Len(chunks) = 0

\* a text of white space alone chunked with metadata
C20_Witness ==
  /\ ChunksReturned
  /\ Len(text) > 0
  /\ \A i \in 1..Len(text) : IsSpace(text[i])
  /\ Truthy(metadata)
  /\ chunks = <<>>

\* C22 as stated: inside an oversized paragraph the sentence loop starts
\* every sub-chunk after the first with the last sentence of the sub-chunk
\* it has just saved, for every overlap_tokens, 0 included.
C22_SentenceOverlapUnconditional ==
  [][(SentenceStep /\ Saves) =>
       /\ Len(temp_chunk') = 2
       /\ temp_chunk'[1] = temp_chunk[Len(temp_chunk)]]_vars

\* C22, amended: the sentence loop starts the next sub-chunk with the last
\* sentence of the sub-chunk it has just saved, whatever the length of that
\* sentence, exactly when overlap_tokens > 0; with overlap_tokens = 0 the
\* next sub-chunk starts with the sentence that did not fit.  The first
\* sentence of a sub-chunk stays first until the sub-chunk is saved, and
\* the saved text begins with it, behind the document reference if the
\* chunk has one.
C22_SentenceOverlapWhenConfigured ==
  [][/\ (SentenceStep /\ Saves) =>
          temp_chunk' = (IF overlap_tokens > 0
                           THEN <<temp_chunk[Len(temp_chunk)]>>
                           ELSE <<>>) \o <<sentences[sent_idx + 1]>>
     /\ (SentenceStep /\ ~Saves /\ Len(temp_chunk) > 0) =>
          temp_chunk'[1] = temp_chunk[1]
     /\ (cpc = "SENTENCES" /\ Saves) =>
          StartsAt(chunks'[Len(chunks')].text, Len(Reference) + 1,
                   temp_chunk[1])]_vars

\* an oversized paragraph chunked with an overlap: a sub-chunk ends with a
\* sentence longer than overlap_chars, and the next sub-chunk begins with
\* that sentence behind the document reference
C22_Witness ==
  /\ LoopReturned
  /\ overlap_tokens > 0
  /\ "num_pages" \in DOMAIN metadata
  /\ Oversized(paragraphs[Len(paragraphs)], target_tokens)
  /\ \E i \in 2..(Len(chunks) - 1) :
        \E k \in 1..Len(sentences) :
           /\ Len(sentences[k]) > overlap_chars(overlap_tokens)
           /\ EndsWith(chunks[i].text, sentences[k])
           /\ StartsAt(chunks[i + 1].text, 1,
                       metadata_context(metadata) \o sentences[k])

\* C27: every chunk chunk_text returns holds at least one paragraph or
\* sentence of the source text, and no chunk is the metadata banner alone,
\* for every text, metadata and chunker setting.
C27_EveryChunkHasSourceText ==
  LoopReturned =>
    LET units == UnitsFrom(paragraphs, 1, target_tokens)
    IN  \A i \in 1..Len(chunks) :
           /\ Truthy(metadata) => chunks[i].text # metadata_header(metadata)
           /\ \E k \in 1..Len(units) : Contains(units[k], chunks[i].text)

RECURSIVE Count(_, _)
\* flags.count(tag)
Count(flags, tag) ==
  IF flags = <<>> THEN 0
  ELSE (IF flags[1] = tag THEN 1 ELSE 0) + Count(Tail(flags), tag)

\* the retrieved chunks whose text the Injection Detector flags
FlaggedChunks ==
  {i \in 1..Len(retrieved_chunks) :
     detect_prompt_injection(retrieved_chunks[i].text).is_injection}

\* C23: the Validator appends one "injection_in_context" flag per retrieved
\* chunk whose text the Injection Detector flags, so every result returned
\* behind the Validator carries as many such flags as there are flagged
\* chunks; a flagged chunk is no ground for rejection: the verdict depends on
\* the draft alone, and an accepted answer is returned as drafted, with the
\* flags and with one citation per chunk, the flagged chunks included.
C23_OneContextFlagPerFlaggedChunk ==
  Validated =>
    /\ Count(validation_result.safety_flags, "injection_in_context")
         = Cardinality(FlaggedChunks)
    /\ validation_result.is_valid <=>
         /\ "error" \notin DOMAIN reasoning_result
         /\ \/ Len(Strip(reasoning_result.answer)) >= MinAnswerLen
            \/ \E k \in 1..Len(no_info_phrases) :
                  Contains(no_info_phrases[k], Lower(reasoning_result.answer))
    /\ pc \in {"DONE", "SHORT_CIRCUIT"} =>
         Count(result.safety_flags, "injection_in_context") = Cardinality(FlaggedChunks)
    /\ pc = "DONE" =>
         /\ result.answer = reasoning_result.answer
         /\ result.safety_flags = validation_result.safety_flags
         /\ \A i \in FlaggedChunks :
               /\ i <= Len(result.citations)
               /\ result.citations[i].chunk_id = retrieved_chunks[i].metadata.chunk_id
               /\ result.citations[i].doc_id = retrieved_chunks[i].metadata.doc_id

\* two flagged chunks retrieved beside an acceptable draft: the answer is
\* returned with two flags and with both chunks cited
C23_Witness ==
  /\ Responded
  /\ FlaggedChunks = {1, 2}
  /\ result.safety_flags = <<"injection_in_context", "injection_in_context">>
  /\ Len(result.citations) = 2
  /\ result.answer = reasoning_result.answer

\* C24 as stated: no tag occurs twice in the safety_flags of a returned
\* result, for any question and any list of retrieved chunks.
C24_SafetyFlagsAreASet ==
  Returned =>
    \A i, j \in 1..Len(result.safety_flags) :
       i # j => result.safety_flags[i] # result.safety_flags[j]

\* C24, amended: safety_flags is a list in which "injection_in_context"
\* stands once per flagged retrieved chunk, so as often as the Injection
\* Detector flags a chunk of the search result, and every other tag at most
\* once.
C24_OnlyContextFlagRepeats ==
  Returned =>
    /\ \A i, j \in 1..Len(result.safety_flags) :
          (i # j /\ result.safety_flags[i] = result.safety_flags[j])
            => result.safety_flags[i] = "injection_in_context"
    /\ Count(result.safety_flags, "injection_in_context")
         = IF Validated THEN Cardinality(FlaggedChunks) ELSE 0

\* a rejected draft beside two flagged chunks: the context flag twice, the
\* reason flag once
C24_Witness ==
  /\ pc = "SHORT_CIRCUIT"
  /\ Validated
  /\ result.safety_flags
       = <<"injection_in_context", "injection_in_context", "answer_too_short">>

\* the types the service is configured to accept
AllowedTypes == {<<"p","d","f">>, <<"t","x","t">>, <<"c","s","v">>, <<"x","l","s","x">>, <<"d","o","c">>, <<"d","o","c","x">>}

\* the name ends with a dot and an allowed type, in any case of letters
HasAllowedExtension(name) ==
  \E type \in AllowedTypes : EndsWith(Lower(name), <<".">> \o type)

\* the response rejecting an upload for its file type
TypeRejected(r) ==
  /\ r # NoValue
  /\ r.endpoint = "upload-document"
  /\ r.status_code = 400
  /\ StartsAt(r.detail, 1, <<"F","i","l","e"," ","t","y","p","e"," ","n","o","t"," ","a","l",
                             "l","o","w","e","d">>)

\* C25: an upload whose file name has no allowed extension is answered with
\* HTTP 400 and nothing is written: the uploads directory and the
\* collection are left as they were and chunk_text is not called.
C25_DisallowedExtensionRejected ==
  [][\A filename \in Filenames, file \in FileContents :
        (upload_document(filename, file) /\ ~HasAllowedExtension(filename)) =>
          /\ TypeRejected(response')
          /\ UNCHANGED <<uploads, collection, issued, upload, chunker_vars>>]_vars

\* a file type rejected while a document is indexed and its file is saved
C25_Witness ==
  /\ TypeRejected(response)
  /\ DOMAIN uploads # {}
  /\ collection # NoValue
  /\ Len(collection.entries) > 0

\* the entries indexed under the digest of a file
IndexedAs(file) ==
  {i \in 1..Len(collection.entries) :
     collection.entries[i].metadata.file_hash = compute_hash(file.bytes)}

\* the upload of the file under the name reaches the duplicate check
ReachesDuplicateCheck(filename, file) ==
  /\ HasAllowedExtension(filename)
  /\ 0 < file.size /\ file.size <= max_upload_bytes
  /\ Lower(suffix(filename)) = <<".","t","x","t">>
  /\ collection # NoValue

\* each digest is indexed under one document id at most
OneDocIdPerHash ==
  collection # NoValue =>
    \A i, j \in 1..Len(collection.entries) :
       collection.entries[i].metadata.file_hash = collection.entries[j].metadata.file_hash
         => collection.entries[i].metadata.doc_id = collection.entries[j].metadata.doc_id

\* C26: the upload of a file whose digest is already indexed is answered
\* with the document id of the indexed document and num_chunks = 0, the
\* collection is left as it was and chunk_text is not called; so after any
\* sequence of uploads, deletions and clears each digest is indexed under
\* one document id at most.
C26_DuplicateUploadLeavesIndex ==
  [][/\ \A filename \in Filenames, file \in FileContents :
          (/\ upload_document(filename, file)
           /\ ReachesDuplicateCheck(filename, file)
           /\ IndexedAs(file) # {}) =>
            /\ response' # NoValue
            /\ response'.status_code = 200
            /\ response'.num_chunks = 0
            /\ \A i \in IndexedAs(file) :
                  response'.doc_id = collection.entries[i].metadata.doc_id
            /\ UNCHANGED <<collection, issued, upload, chunker_vars>>
     /\ OneDocIdPerHash']_vars

\* the file of an indexed document uploaded again under another name, beside
\* a second document
C26_Witness ==
  /\ response # NoValue
  /\ response.endpoint = "upload-document"
  /\ response.status_code = 200
  /\ response.num_chunks = 0
  /\ response.doc_id = DocId(1)
  /\ response.filename = <<"B",".","T","X","T">>
  /\ Len(collection.entries) = 2
  /\ collection.entries[1].metadata.filename = <<"a",".","t","x","t">>

\* C29: the file of every document listed in the collection is in the
\* uploads directory under the name it was uploaded with, and holds the
\* bytes that were indexed, whatever uploads were served since.
C29_IndexedFileKept ==
  collection # NoValue =>
    \A i \in 1..Len(collection.entries) :
       LET indexed == collection.entries[i].metadata
       IN  /\ indexed.filename \in DOMAIN uploads
           /\ compute_hash(uploads[indexed.filename].bytes) = indexed.file_hash

\* the flag the Planner gives a question the Injection Detector flags
Flagged(flags) == \E i \in 1..Len(flags) : flags[i] = "prompt_injection"

\* C30: an ask request whose question the Injection Detector flags is
\* answered with HTTP 400 by validate_question and the pipeline is not
\* entered, so no collaborator is called for it; the question of a request
\* in the pipeline is never a flagged one, and no result and no response of
\* the endpoint carries the flag "prompt_injection".
C30_FlaggedQuestionStopsAtEndpoint ==
  [][/\ \A q \in AskedQuestions :
          (ask_question(q) /\ detect_prompt_injection(q).is_injection) =>
            /\ response' # NoValue
            /\ response'.endpoint = "ask-question"
            /\ response'.status_code = 400
            /\ UNCHANGED <<request, pipeline_vars>>
     /\ request' # NoValue =>
          /\ question' = request'.question
          /\ ~detect_prompt_injection(question').is_injection
     /\ pc' \in {"DONE", "SHORT_CIRCUIT"} => ~Flagged(result'.safety_flags)
     /\ (response' # NoValue /\ "safety_flags" \in DOMAIN response') =>
          ~Flagged(response'.safety_flags)]_vars

\* a flagged question rejected while a document is indexed
C30_Witness ==
  /\ response # NoValue
  /\ response.endpoint = "ask-question"
  /\ response.status_code = 400
  /\ response.detail = <<"Q","u","e","s","t","i","o","n"," ","c","o","n","t","a","i","n",
                         "s"," ","p","o","t","e","n","t","i","a","l","l","y"," ","u","n",
                         "s","a","f","e"," ","p","a","t","t","e","r","n","s">>
  /\ pc = "IDLE"
  /\ trace = <<>>
  /\ Len(collection.entries) > 0

\* the collection holds no chunk
IndexEmpty == collection # NoValue /\ collection.entries = <<>>

\* the answer says that no documents are there or asks to upload some
NoDocumentsSaid(answer) ==
  \/ Contains(<<"n","o"," ","d","o","c","u","m","e","n","t","s">>, Lower(answer))
  \/ Contains(<<"u","p","l","o","a","d">>, Lower(answer))

\* C21: while the collection holds no chunk (before the first indexed
\* upload, after a clear, after the last document was deleted), the Planner
\* ends every run of a valid question with the answer that no documents
\* have been uploaded, and the request is answered with HTTP 200, that
\* answer and no citation, the search and the completion service not having
\* been called; the collection stays empty until an upload is indexed.
C21_EmptyIndexAnswer ==
  [][/\ (AskPlanner /\ IndexEmpty) =>
          /\ pc' = "SHORT_CIRCUIT"
          /\ result'.answer = EmptyKnowledgeBaseResponse
          /\ result'.citations = <<>>
     /\ (AskRespond /\ IndexEmpty) =>
          /\ response'.status_code = 200
          /\ NoDocumentsSaid(response'.answer)
          /\ response'.citations = <<>>
          /\ ~InTrace("search")
          /\ ~InTrace("generate_completion")
     /\ (IndexEmpty /\ ~IndexEmpty') =>
          /\ UploadIndex
          /\ response'.status_code = 200
          /\ response'.num_chunks = Len(collection'.entries)
          /\ response'.num_chunks > 0]_vars

\* a valid question answered on a collection emptied after a document had
\* been indexed
C21_Witness ==
  /\ IndexEmpty
  /\ issued > 0
  /\ response # NoValue
  /\ response.endpoint = "ask-question"
  /\ response.status_code = 200
  /\ response.answer = EmptyKnowledgeBaseResponse
  /\ response.safety_flags = <<"empty_knowledge_base">>

\* the collection holds no chunk or is deleted
NothingIndexed == collection = NoValue \/ collection.entries = <<>>

\* a run whose Planner counted chunks searches a collection that holds none
\* any more: it ends in the early return with a well-formed result, and the
\* completion service is not called
EmptiedBeforeSearch ==
  (AskRetriever /\ stats_outcome.value.total_chunks > 0 /\ NothingIndexed) =>
    /\ pc' = "SHORT_CIRCUIT"
    /\ DOMAIN result' = ResultFields
    /\ result'.answer = NoDocumentsAnswer
    /\ result'.citations = <<>>
    /\ result'.confidence = "low"
    /\ \A i \in 1..Len(trace') : trace'[i] # "generate_completion"

====
